---- MODULE Spec2Model ----
(***************************************************************************)
(* Retrieval funnel of brilliance-demo: terminology expansion, the query   *)
(* builder, the fan-out over the queries, the arXiv fetcher, the           *)
(* deduplicator, the domain and relevance filters, the global              *)
(* rank-and-trim stage and the orchestration around it; the validator of   *)
(* the synthesis report, the research budget of the agent's tools, one     *)
(* run of the research agent, and the per-IP model quota of the API.       *)
(*                                                                         *)
(* Text is modelled as a sequence of one-character strings, so that the    *)
(* splitting, stripping, case folding and pattern matching of the Python   *)
(* code are computed, not assumed.                                         *)
(***************************************************************************)
EXTENDS Integers, Sequences, FiniteSets, TLC

VARIABLES
    pc,               \* position of the modelled run
    paper_texts,      \* _deduplicate_papers: the argument (a list of blobs)
    combined_papers,  \* _deduplicate_papers(paper_texts)
    rededuped,        \* _deduplicate_papers([combined_papers])
    scenario,         \* which end-to-end scenario built paper_texts (or <<>>)
    all_results,      \* rank_and_trim_results: the per-source results (a dict)
    query,            \* rank_and_trim_results: the user's query
    max_total,        \* rank_and_trim_results: the per-source cap
    now_year,         \* datetime.now().year
    scored,           \* per source: the list `scored` after scored.sort(...)
    top,              \* per source: input positions of the chunks emitted
    out,              \* rank_and_trim_results: the returned dict
    enabled_sources,  \* orchestrate_research: the argument sources
    final_results,    \* orchestrate_research: final_results (or <<>>)
    synthesis_calls,  \* the prompts synthesize_papers_async was called with
    rel_query,        \* filter_papers_by_relevance: the query
    papers_text,      \* filter_papers_by_relevance: the raw paper text
    min_relevance_score, \* filter_papers_by_relevance: the admission threshold
    max_papers,       \* filter_papers_by_relevance: the optional cap
    papers,           \* the list returned by _parse_papers_from_text
    scored_papers,    \* the list `scored_papers` of filter_papers_by_relevance
    eval_path,        \* per score: the branch of evaluate_paper_relevance taken
    filter_results,   \* the RelevanceFilterResults returned (or <<>>)
    formatted_text,   \* what format_filtered_papers returned (or <<>>)
    hash_seed,        \* the per-process seed of Python's str hash
    domain_context,   \* enhanced_search: the DomainContext argument or None
    enable_domain_filtering,    \* EnhancedArxivSearch.enable_domain_filtering
    enable_relevance_filtering, \* EnhancedArxivSearch.enable_relevance_filtering
    domain_papers,    \* classify_papers_by_domain: the parsed papers
    classifications,  \* every DomainClassificationResult computed, in order
    class_path,       \* per classification: the branch of classify_paper_domain
    domain_results,   \* enhanced_search: domain_results (None or a list)
    domain_filtered_papers, \* enhanced_search: domain_filtered_papers
    search_queries,   \* _execute_search_queries: the list of queries
    fan_i,            \* _execute_search_queries: the loop index i (from 0)
    slept,            \* whether this iteration has passed its time.sleep(3)
    metadata,         \* _execute_search_queries: the metadata dict
    events,           \* the sleeps and fetcher calls made so far, in order
    fetch_q,          \* arxiv._fetch: the argument q and its fielded form
    max_results,      \* arxiv._fetch: the argument max_results
    attempt_index,    \* arxiv._fetch: index into attempts (from 0)
    start,            \* arxiv._fetch: offset of the next page
    pages_tried,      \* arxiv._fetch: pages_tried
    collected_parts,  \* arxiv._fetch: the parts collected so far
    time_bound,       \* arxiv._fetch: whether its local name `time` is bound
    http_attempt,     \* arxiv._fetch: `attempt` of the retry loop
    page_requests,    \* the sleeps and HTTP requests of _fetch, in order
    fetch_result,     \* arxiv._fetch: the value returned (or <<>>)
    original_query,   \* the query of expand_query_terminology and
                      \* _build_search_queries
    use_ai,           \* expand_query_terminology: use_ai
    max_terms_per_category, \* expand_query_terminology: the category cap
    key_concepts,     \* what _extract_key_concepts returned (or <<>>)
    ai_terms,         \* expand_query_terminology: the AI call's outcome
    expanded_terms,   \* the ExpandedTerminology (or <<>>)
    max_searches,     \* EnhancedArxivSearch.max_searches
    report,           \* the parts the validated report was composed of
    output,           \* synthesis_output_guardrail: the argument output
    cites,            \* synthesis_output_guardrail: its local `cites`
    ref_keys,         \* synthesis_output_guardrail: its local `ref_keys`
    guardrail_result, \* the GuardrailFunctionOutput returned (or <<>>)
    _BUDGET,          \* agents/tools.py: the module's dict _BUDGET
    clock,            \* time.time(), in seconds
    run_pc,           \* per run of the research agent: its position
    run_args,         \* per run: the arguments of its set_research_budget
    tool_pc,          \* per tool invocation of a run: its position
    tool_local,       \* per tool invocation: the value of calls it loaded
    admitted,         \* per run: the invocations _check_budget let pass
    cap_seen,         \* per tool invocation: the per-source cap it read
    run_query,        \* run_research_agent: the arguments query, max_results
    tool_results,     \* the tool invocations of the run and their outcomes
    fetcher_calls,    \* the calls of source fetchers made during the run
    budget_raised,    \* whether _check_budget has raised during the run
    research_output,  \* the ResearchOutput returned (or <<>>)
    environ,          \* api/v1.py: the quota settings of os.environ
    epoch,            \* api/v1.py: time.time(), in seconds
    _model_quota_store, \* api/v1.py: the dict _model_quota_store
    lock_holder,      \* the request holding _quota_lock (0: none)
    requests,         \* per request: its position and its local variables
    decisions         \* per request: what it returned

dedupVars == <<paper_texts, combined_papers, rededuped, scenario>>
rankVars == <<all_results, query, max_total, now_year, scored, top, out,
              enabled_sources, final_results, synthesis_calls>>
relVars == <<rel_query, formatted_text, papers_text, min_relevance_score, max_papers, papers,
             scored_papers, eval_path, filter_results>>
searchVars == <<hash_seed, domain_context, enable_domain_filtering,
                enable_relevance_filtering, domain_papers, classifications,
                class_path, domain_results, domain_filtered_papers>>
fanVars == <<search_queries, fan_i, slept, metadata, events>>
fetchVars == <<fetch_q, max_results, attempt_index, start, pages_tried,
               collected_parts, time_bound, http_attempt, page_requests,
               fetch_result>>
expandVars == <<original_query, use_ai, max_terms_per_category, key_concepts,
                ai_terms, expanded_terms, max_searches>>
reportVars == <<report, output, cites, ref_keys, guardrail_result>>
budgetVars == <<_BUDGET, clock, run_pc, run_args, tool_pc, tool_local,
                admitted, cap_seen>>
runVars == <<run_query, tool_results, fetcher_calls, budget_raised,
             research_output>>
quotaVars == <<environ, epoch, _model_quota_store, lock_holder, requests,
               decisions>>
lateVars == <<reportVars, budgetVars, runVars, quotaVars>>
stageVars == <<fanVars, fetchVars, expandVars, lateVars>>
vars == <<pc, dedupVars, rankVars, relVars, searchVars, stageVars>>

(***************************************************************************)
(* Text primitives (Python str methods and the re module)                  *)
(***************************************************************************)
NL == <<"\n">>
NLNL == <<"\n", "\n">>
UpperChars == <<"A","B","C","D","E","F","G","H","I","J","K","L","M",
                "N","O","P","Q","R","S","T","U","V","W","X","Y","Z">>
LowerChars == <<"a","b","c","d","e","f","g","h","i","j","k","l","m",
                "n","o","p","q","r","s","t","u","v","w","x","y","z">>
DigitChars == <<"0","1","2","3","4","5","6","7","8","9">>

Range(f) == {f[i] : i \in DOMAIN f}
UpperSet == Range(UpperChars)
AlphaSet == Range(UpperChars) \cup Range(LowerChars)
DigitSet == Range(DigitChars)
SpaceSet == {" ", "\n", "\t"}
IsSpace(c) == c \in SpaceSet
IsDigit(c) == c \in DigitSet
IsAlpha(c) == c \in AlphaSet
IsAlnum(c) == IsAlpha(c) \/ IsDigit(c)

\* str.lower() on one character
LowerOf == [c \in UpperSet |->
               LowerChars[CHOOSE i \in DOMAIN UpperChars : UpperChars[i] = c]]
LowerChar(c) == IF c \in UpperSet THEN LowerOf[c] ELSE c
Lower(s) == <<>> \o [i \in DOMAIN s |-> LowerChar(s[i])]

\* str.strip(): drop leading and trailing whitespace
RECURSIVE LStrip(_)
LStrip(s) == IF s # <<>> /\ IsSpace(Head(s)) THEN LStrip(Tail(s)) ELSE s
RECURSIVE RStrip(_)
RStrip(s) ==
    IF s # <<>> /\ IsSpace(s[Len(s)]) THEN RStrip(SubSeq(s, 1, Len(s) - 1)) ELSE s
Strip(s) == RStrip(LStrip(s))

StartsWithAt(s, i, sep) ==
    /\ i + Len(sep) - 1 <= Len(s)
    /\ \A k \in DOMAIN sep : s[i + k - 1] = sep[k]

\* str.find(sep) + 1: position of the first occurrence, 0 when there is none
FindFrom(s, sep, i) ==
    LET hits == {k \in i..(Len(s) - Len(sep) + 1) : StartsWithAt(s, k, sep)}
    IN IF hits = {} THEN 0
       ELSE CHOOSE k \in hits : \A j \in hits : k <= j
Find(s, sep) == FindFrom(s, sep, 1)
Contains(s, sep) == Find(s, sep) # 0

\* str.split(sep): non-overlapping occurrences, left to right
RECURSIVE Split(_, _)
Split(s, sep) ==
    LET p == Find(s, sep)
    IN IF p = 0 THEN <<s>>
       ELSE <<SubSeq(s, 1, p - 1)>> \o Split(SubSeq(s, p + Len(sep), Len(s)), sep)

\* sep.join(parts)
RECURSIVE Join(_, _)
Join(parts, sep) ==
    IF parts = <<>> THEN <<>>
    ELSE IF Len(parts) = 1 THEN parts[1]
    ELSE parts[1] \o sep \o Join(Tail(parts), sep)

\* does r'\s*\(\d{4}\)' match s starting at position i
RECURSIVE YearPatternAt(_, _)
YearPatternAt(s, i) ==
    IF i > Len(s) THEN FALSE
    ELSE IF IsSpace(s[i]) /\ YearPatternAt(s, i + 1) THEN TRUE
    ELSE /\ i + 5 <= Len(s)
         /\ s[i] = "("
         /\ \A k \in 1..4 : IsDigit(s[i + k])
         /\ s[i + 5] = ")"

\* re.sub(r'\s*\(\d{4}\).*$', '', line) on a line without newline: the
\* leftmost match runs to the end of the line, so the prefix before it is left
RECURSIVE YearPatternFrom(_, _)
YearPatternFrom(s, i) ==
    IF i > Len(s) THEN 0
    ELSE IF YearPatternAt(s, i) THEN i
    ELSE YearPatternFrom(s, i + 1)
SubYearSuffix(line) ==
    LET p == YearPatternFrom(line, 1)
    IN IF p = 0 THEN line ELSE SubSeq(line, 1, p - 1)

(***************************************************************************)
(* Deduplicator: EnhancedArxivSearch._deduplicate_papers                   *)
(***************************************************************************)
NoPapersFound ==
    <<"N","o"," ","p","a","p","e","r","s"," ","f","o","u","n","d",".">>

\* clean_title = re.sub(...).strip().lower()
CleanTitleNoLower(title_line) == Strip(SubYearSuffix(title_line))
CleanTitle(title_line) == Lower(Strip(SubYearSuffix(title_line)))

\* lines = block.strip().split('\n'); title_line = lines[0]
TitleLineUnstripped(block) == Split(block, NL)[1]
TitleLine(block) == Split(Strip(block), NL)[1]

\* the inner loop over the blocks of one blob; acc = [seen, unique]
RECURSIVE DedupeBlocksKeepLast(_, _, _)
DedupeBlocksKeepLast(paper_blocks, k, acc) ==
    IF k > Len(paper_blocks) THEN acc
    ELSE LET block == paper_blocks[k]
             clean_title == CleanTitle(TitleLine(block))
             others == SelectSeq(acc.unique,
                           LAMBDA u : CleanTitle(TitleLine(u)) # clean_title)
         IN IF Strip(block) = <<>>
            THEN DedupeBlocksKeepLast(paper_blocks, k + 1, acc)
            ELSE DedupeBlocksKeepLast(paper_blocks, k + 1,
                     [seen |-> acc.seen \cup {clean_title},
                      unique |-> Append(others, Strip(block))])
RECURSIVE DedupeBlocks(_, _, _)
DedupeBlocks(paper_blocks, k, acc) ==
    IF k > Len(paper_blocks) THEN acc
    ELSE LET block == paper_blocks[k]
             title_line == TitleLine(block)
             clean_title == CleanTitle(title_line)
         IN IF Strip(block) = <<>>
            THEN DedupeBlocks(paper_blocks, k + 1, acc)
            ELSE IF clean_title \notin acc.seen
            THEN DedupeBlocks(paper_blocks, k + 1,
                     [seen |-> acc.seen \cup {clean_title},
                      unique |-> Append(acc.unique, Strip(block))])
            ELSE DedupeBlocks(paper_blocks, k + 1, acc)

\* the outer loop over the blobs
RECURSIVE DedupeTexts(_, _, _)
DedupeTexts(texts, t, acc) ==
    IF t > Len(texts) THEN acc
    ELSE DedupeTexts(texts, t + 1, DedupeBlocks(Split(texts[t], NLNL), 1, acc))

_deduplicate_papers(texts) ==
    IF texts = <<>> THEN NoPapersFound
    ELSE Join(DedupeTexts(texts, 1, [seen |-> {}, unique |-> <<>>]).unique, NLNL)

(***************************************************************************)
(* Inputs of the deduplicator                                              *)
(***************************************************************************)
MaxPieces == 5

\* a blob list is written as a sequence of piece numbers; 0 ends a blob
Pieces == <<
    <<"a", "b">>,
    <<"A", "b">>,
    <<" ">>,
    <<"\n">>,
    <<"\n", "\n">>,
    <<"(", "2", "0", "2", "4", ")">> >>

SeqsUpTo(S, n) == UNION {[1..k -> S] : k \in 0..n}

RECURSIVE BlobsOf(_, _, _)
BlobsOf(e, i, cur) ==
    IF i > Len(e) THEN <<cur>>
    ELSE IF e[i] = 0 THEN <<cur>> \o BlobsOf(e, i + 1, <<>>)
    ELSE BlobsOf(e, i + 1, cur \o Pieces[e[i]])
PieceInput(e) == IF e = <<>> THEN <<>> ELSE BlobsOf(e, 1, <<>>)

\* the end-to-end scenario: two sources return 5 well-formed blocks each,
\* the first two titles of the second overlap with the first source's,
\* each written in one of these ways
Variants == {"same", "case", "edge", "inner"}
ScenarioTitle(n) == <<"a", "b", " ", <<"c","d","e","f","g","h","i","j">>[n]>>
VariantTitle(n, v) ==
    CASE v = "same" -> ScenarioTitle(n)
      [] v = "case" -> <<"A", "b", " ", UpperChars[n + 2]>>
      [] v = "edge" -> ScenarioTitle(n) \o <<" ">>
      [] v = "inner" -> <<"a", "b", " ", " ", LowerChars[n + 2]>>
\* Title (Year) by Authors\nAbstract: ...\nURL: ...
WellFormedBlock(title, year) ==
    title \o <<" ", "(">> \o year \o <<")", " ", "b", "y", " ", "x">>
          \o <<"\n", "A", "b", "s", "t", "r", "a", "c", "t", ":", " ", "t">>
          \o <<"\n", "U", "R", "L", ":", " ", "u">>
Year2024 == <<"2", "0", "2", "4">>
Year2025 == <<"2", "0", "2", "5">>
ScenarioInput(v1, v2) ==
    << Join([n \in 1..5 |-> WellFormedBlock(ScenarioTitle(n), Year2024)], NLNL),
       Join(<< WellFormedBlock(VariantTitle(1, v1), Year2025),
               WellFormedBlock(VariantTitle(2, v2), Year2024) >>
            \o [n \in 1..3 |-> WellFormedBlock(ScenarioTitle(n + 5), Year2025)],
            NLNL) >>

\* the variables of the other stages while the deduplicator runs
RankIdle ==
    /\ all_results = <<>> /\ query = <<>> /\ max_total = 0 /\ now_year = 0
    /\ scored = <<>> /\ top = <<>> /\ out = <<>>
    /\ enabled_sources = <<>> /\ final_results = <<>> /\ synthesis_calls = <<>>
RelIdle ==
    /\ rel_query = <<>> /\ papers_text = <<>> /\ min_relevance_score = <<>>
    /\ max_papers = <<>> /\ papers = <<>> /\ scored_papers = <<>>
    /\ eval_path = <<>> /\ filter_results = <<>> /\ formatted_text = <<>>
SearchIdle ==
    /\ hash_seed = 0 /\ domain_context = <<>>
    /\ enable_domain_filtering = FALSE /\ enable_relevance_filtering = FALSE
    /\ domain_papers = <<>> /\ classifications = <<>> /\ class_path = <<>>
    /\ domain_results = <<>> /\ domain_filtered_papers = <<>>
FanIdle ==
    /\ search_queries = <<>> /\ fan_i = 0 /\ slept = FALSE
    /\ metadata = <<>> /\ events = <<>>
FetchIdle ==
    /\ fetch_q = <<>> /\ max_results = 0 /\ attempt_index = 0 /\ start = 0
    /\ pages_tried = 0 /\ collected_parts = <<>> /\ time_bound = FALSE
    /\ http_attempt = 0 /\ page_requests = <<>> /\ fetch_result = <<>>
ExpandIdle ==
    /\ original_query = <<>> /\ use_ai = FALSE /\ max_terms_per_category = 0
    /\ key_concepts = <<>> /\ ai_terms = <<>> /\ expanded_terms = <<>>
    /\ max_searches = 0
ReportIdle ==
    /\ report = <<>> /\ output = <<>> /\ cites = <<>> /\ ref_keys = {}
    /\ guardrail_result = <<>>
BudgetIdle ==
    /\ _BUDGET = <<>> /\ clock = 0 /\ run_pc = <<>> /\ run_args = <<>>
    /\ tool_pc = <<>> /\ tool_local = <<>> /\ admitted = <<>>
    /\ cap_seen = <<>>
RunIdle ==
    /\ run_query = <<>> /\ tool_results = <<>> /\ fetcher_calls = <<>>
    /\ budget_raised = FALSE /\ research_output = <<>>
QuotaIdle ==
    /\ environ = <<>> /\ epoch = 0 /\ _model_quota_store = <<>>
    /\ lock_holder = 0 /\ requests = <<>> /\ decisions = <<>>
LateIdle == ReportIdle /\ BudgetIdle /\ RunIdle /\ QuotaIdle
StageIdle == FanIdle /\ FetchIdle /\ ExpandIdle /\ LateIdle

(***************************************************************************)
(* The deduplicator run: dedupe once, then dedupe its own output           *)
(***************************************************************************)
InitDedupe ==
    /\ pc = "start"
    /\ StageIdle
    /\ \/ /\ scenario = <<>>
          /\ \E e \in SeqsUpTo(0..Len(Pieces), MaxPieces) :
                 paper_texts = PieceInput(e)
       \/ \E v1 \in Variants, v2 \in Variants :
              /\ scenario = <<v1, v2>>
              /\ paper_texts = ScenarioInput(v1, v2)
    /\ combined_papers = <<>>
    /\ rededuped = <<>>
    /\ RankIdle
    /\ RelIdle
    /\ SearchIdle

\* combined_papers = self._deduplicate_papers(paper_texts)
Dedupe ==
    /\ pc = "start"
    /\ combined_papers' = _deduplicate_papers(paper_texts)
    /\ pc' = "deduped"
    /\ UNCHANGED <<stageVars, paper_texts, rededuped, scenario, rankVars, relVars, searchVars>>

\* the deduplicator applied to its own output, as a single blob
DedupeAgain ==
    /\ pc = "deduped"
    /\ rededuped' = _deduplicate_papers(<<combined_papers>>)
    /\ pc' = "rededuped"
    /\ UNCHANGED <<stageVars, paper_texts, combined_papers, scenario, rankVars, relVars, searchVars>>

NextDedupe == Dedupe \/ DedupeAgain
SpecDedupe == InitDedupe /\ [][NextDedupe]_vars

(***************************************************************************)
(* Properties of the deduplicator                                          *)
(***************************************************************************)
Flatten(ss) == Join(ss, <<>>)
NonBlank(blocks) == SelectSeq(blocks, LAMBDA b : Strip(b) # <<>>)
\* every non-blank block of the argument, stripped, in argument and block order
InputBlocks(texts) ==
    Flatten([t \in DOMAIN texts |->
        LET bs == NonBlank(Split(texts[t], NLNL))
        IN [k \in DOMAIN bs |-> Strip(bs[k])]])
\* the blocks whose normalized title no earlier block has
FirstOccurrences(blocks) ==
    LET keep(i) == \A j \in 1..(i - 1) :
                       CleanTitle(TitleLine(blocks[j])) # CleanTitle(TitleLine(blocks[i]))
        RECURSIVE pick(_)
        pick(i) == IF i > Len(blocks) THEN <<>>
                   ELSE IF keep(i) THEN <<blocks[i]>> \o pick(i + 1)
                   ELSE pick(i + 1)
    IN pick(1)
BlocksOf(text) == IF text = <<>> THEN <<>> ELSE Split(text, NLNL)

\* C1: dedupe is idempotent: deduplicating the output of _deduplicate_papers
\* (as a single blob) returns that output unchanged, also for an empty
\* argument and for blobs that hold only blank blocks.
C1_DedupeIdempotent ==
    pc = "rededuped" => rededuped = combined_papers
\* a run in which the first pass dropped a duplicate and kept two blocks
C1_Witness ==
    /\ pc = "rededuped"
    /\ Len(BlocksOf(combined_papers)) = 2
    /\ Len(InputBlocks(paper_texts)) > 2
    /\ rededuped = combined_papers

\* C2: the output holds, for each normalized title, exactly the block of its
\* first occurrence (in argument order, then block order), in the order of
\* first occurrence; every later block with that title is dropped in full.
\* (For an empty argument list the output is the no-papers marker.)
C2_FirstOccurrenceWins ==
    pc # "start" =>
        IF paper_texts = <<>> THEN combined_papers = NoPapersFound
        ELSE BlocksOf(combined_papers) = FirstOccurrences(InputBlocks(paper_texts))
\* a later blob repeats a title of an earlier blob and is dropped
C2_Witness ==
    /\ pc = "deduped"
    /\ Len(paper_texts) = 2
    /\ Len(InputBlocks(paper_texts)) = 3
    /\ Len(BlocksOf(combined_papers)) = 2
    /\ BlocksOf(combined_papers)[1] = InputBlocks(paper_texts)[1]
    /\ BlocksOf(combined_papers)[1] # InputBlocks(paper_texts)[3]
    /\ CleanTitle(TitleLine(InputBlocks(paper_texts)[3]))
           = CleanTitle(TitleLine(InputBlocks(paper_texts)[1]))

InnerVariants == Cardinality({i \in DOMAIN scenario : scenario[i] = "inner"})
\* C3 as claimed: 5 + 5 well-formed blocks with 2 overlapping titles that
\* differ in letter case or in whitespace spacing always dedupe to 8 papers.
C3_AsClaimed ==
    (pc # "start" /\ scenario # <<>>) => Len(BlocksOf(combined_papers)) = 8
\* C3 as amended: blocks whose titles differ only in letter case, or in
\* whitespace at the ends of the title (before the year group), are the same
\* paper; a difference in the spacing inside the title makes two papers. The
\* 5 + 5 scenario yields 8 papers plus one for each overlap written with
\* different inner spacing.
C3_CaseAndEdgeSpacing ==
    (pc # "start" /\ scenario # <<>>) =>
        Len(BlocksOf(combined_papers)) = 8 + InnerVariants
\* the scenario with one overlap differing in case and one in edge spacing
C3_Witness ==
    /\ pc = "deduped"
    /\ scenario = <<"case", "edge">>
    /\ Len(BlocksOf(combined_papers)) = 8

(***************************************************************************)
(* Global rank-and-trim: workflows.rank_and_trim_results                   *)
(***************************************************************************)
\* a dict value: a string (kind "str", its text) or a non-string (kind "none")
Str(text) == [kind |-> "str", text |-> text]
NoneValue == [kind |-> "none", text |-> <<>>]
NoResults == <<"N","o"," ","r","e","s","u","l","t","s">>
Sources == <<"arxiv", "pubmed", "openalex">>

\* d.get(key, default)
Get(d, key, default) == IF key \in DOMAIN d THEN d[key] ELSE default

\* s.split(sep, 1)[0] and s.split(sep, 1)[1]
Before(s, sep) ==
    LET p == Find(s, sep) IN IF p = 0 THEN s ELSE SubSeq(s, 1, p - 1)
After(s, sep) == SubSeq(s, Find(s, sep) + Len(sep), Len(s))

\* lst[:n], also for a negative n
Slice(lst, n) ==
    IF n >= 0 THEN SubSeq(lst, 1, IF n < Len(lst) THEN n ELSE Len(lst))
    ELSE SubSeq(lst, 1, Len(lst) + n)

\* re.findall(r"[a-zA-Z0-9]+", text.lower())
RECURSIVE TokensFrom(_, _, _)
TokensFrom(s, i, cur) ==
    LET done == IF cur = <<>> THEN <<>> ELSE <<cur>>
    IN IF i > Len(s) THEN done
       ELSE IF IsAlnum(s[i]) THEN TokensFrom(s, i + 1, Append(cur, s[i]))
       ELSE done \o TokensFrom(s, i + 1, <<>>)
_tokenize_for_scoring(text) ==
    IF text = <<>> THEN <<>> ELSE TokensFrom(Lower(text), 1, <<>>)

\* int(s): optional whitespace around an optionally signed run of digits;
\* ok is FALSE where Python raises ValueError
DigitValOf == [c \in DigitSet |->
                 (CHOOSE i \in DOMAIN DigitChars : DigitChars[i] = c) - 1]
DigitVal(c) == DigitValOf[c]
RECURSIVE DigitsVal(_)
DigitsVal(s) ==
    IF s = <<>> THEN 0
    ELSE 10 * DigitsVal(SubSeq(s, 1, Len(s) - 1)) + DigitVal(s[Len(s)])
ParseInt(s) ==
    LET t == Strip(s)
        signed == t # <<>> /\ t[1] \in {"+", "-"}
        body == IF signed THEN Tail(t) ELSE t
    IN IF body # <<>> /\ \A i \in DOMAIN body : IsDigit(body[i])
       THEN [ok |-> TRUE,
             val |-> IF signed /\ t[1] = "-" THEN 0 - DigitsVal(body)
                     ELSE DigitsVal(body)]
       ELSE [ok |-> FALSE, val |-> 0]

Max(a, b) == IF a >= b THEN a ELSE b

\* the (chunk_text, metadata) pairs of one source value; the url field of
\* the metadata is never read by the ranking and is left out
ChunkMeta(c) ==
    LET title_line == IF Contains(c, NL) THEN Before(c, NL) ELSE c
        title == Before(title_line, <<" ", "(">>)
        year == IF Contains(title_line, <<"(">>) /\ Contains(title_line, <<")">>)
                THEN Before(After(title_line, <<"(">>), <<")">>)
                ELSE <<"N", "/", "A">>
    IN [title |-> title, year |-> year]
_parse_source_chunks(source_value) ==
    IF source_value.kind # "str" \/ Strip(source_value.text) = <<>> THEN <<>>
    ELSE LET raw == Split(Strip(source_value.text), NLNL)
             chunks == NonBlank(<<>> \o [k \in DOMAIN raw |-> Strip(raw[k])])
         IN <<>> \o [k \in DOMAIN chunks |->
                        [text |-> chunks[k], meta |-> ChunkMeta(chunks[k])]]

\* _score_chunk, in half points: the value below is twice the Python float
\* (overlap * 2.0 + max(0.0, 3.0 - age * 0.5) is a multiple of 0.5, exact
\* in binary floating point)
ScoreUnclampedAge(q, meta, year_now) ==
    LET overlap == Cardinality(Range(_tokenize_for_scoring(q))
                               \cap Range(_tokenize_for_scoring(meta.title)))
        y == ParseInt(meta.year)
    IN 4 * overlap + (IF y.ok THEN Max(0, 6 - (year_now - y.val)) ELSE 0)
_score_chunk(q, meta, year_now) ==
    LET query_tokens == Range(_tokenize_for_scoring(q))
        title_tokens == Range(_tokenize_for_scoring(meta.title))
        overlap == Cardinality(query_tokens \cap title_tokens)
        y == ParseInt(meta.year)
        age == Max(0, year_now - y.val)
    IN 4 * overlap + (IF y.ok THEN Max(0, 6 - age) ELSE 0)

\* scored.sort(key=lambda x: x[1], reverse=True): stable, descending
RECURSIVE InsertBeforeTies(_, _)
InsertBeforeTies(sorted, x) ==
    IF sorted = <<>> THEN <<x>>
    ELSE IF Head(sorted).score > x.score
    THEN <<Head(sorted)>> \o InsertBeforeTies(Tail(sorted), x)
    ELSE <<x>> \o sorted
RECURSIVE InsertDesc(_, _)
InsertDesc(sorted, x) ==
    IF sorted = <<>> THEN <<x>>
    ELSE IF Head(sorted).score >= x.score
    THEN <<Head(sorted)>> \o InsertDesc(Tail(sorted), x)
    ELSE <<x>> \o sorted
RECURSIVE SortDescFrom(_, _, _)
SortDescFrom(lst, k, sorted) ==
    IF k > Len(lst) THEN sorted
    ELSE SortDescFrom(lst, k + 1, InsertDesc(sorted, lst[k]))
SortDesc(lst) == SortDescFrom(lst, 1, <<>>)

\* out[source] of a source that has chunks, from its sorted list
Trimmed(results, source, sorted, cap) ==
    LET kept == Slice(sorted, cap)
    IN IF kept # <<>>
       THEN Str(Join(<<>> \o [k \in DOMAIN kept |-> kept[k].text], NLNL))
       ELSE Get(results, source, Str(NoResults))

\* the input positions of the chunks that out[source] holds
EmittedIdx(sorted, cap) ==
    LET kept == Slice(sorted, cap)
    IN IF kept # <<>> THEN <<>> \o [k \in DOMAIN kept |-> kept[k].idx]
       ELSE <<>> \o [k \in DOMAIN sorted |-> k]

\* the list `scored` of one source after the sort (<<>> for a source without
\* chunks); idx is the chunk's input position, not part of the Python tuple
ScoredOf(results, source, q, year_now) ==
    LET chunks == _parse_source_chunks(Get(results, source, Str(<<>>)))
    IN SortDesc(<<>> \o [k \in DOMAIN chunks |->
           [text |-> chunks[k].text,
            score |-> _score_chunk(q, chunks[k].meta, year_now),
            idx |-> k]])

\* out = dict(all_results), then out[source] for the sources with chunks;
\* sorted_of[source] is ScoredOf that source
RankedDictAllSources(results, sorted_of, cap) ==
    [key \in DOMAIN results \cup Range(Sources) |->
        IF key \in Range(Sources)
        THEN Trimmed(results, key, sorted_of[key], cap) ELSE results[key]]
RankedDict(results, sorted_of, cap) ==
    [key \in DOMAIN results |->
        IF key \in Range(Sources) /\ sorted_of[key] # <<>>
        THEN Trimmed(results, key, sorted_of[key], cap) ELSE results[key]]

(***************************************************************************)
(* Inputs of rank-and-trim                                                 *)
(***************************************************************************)
MaxChunks == 3
MaxTotal == 3

ChunkPool == <<
    <<"a", "b", " ", "(", "2", "0", "2", "4", ")", " ", "b", "y", " ", "x",
      "\n", "U", "R", "L", ":", " ", "u">>,
    <<"c", "d", " ", "(", "2", "0", "2", "4", ")">>,
    <<"a", "b", " ", "c", "d", " ", "(", "2", "0", "2", "0", ")">>,
    <<"a", "b", " ", "(", "2", "0", "3", "0", ")">>,
    <<"A", "b", " ", "(", "n", ")", " ", "c", "d">> >>
Queries == { <<"a", "b", " ", "c", "d">>, <<"C", "D", ",", "z", "z">> }
NowYears == {2026, 2029}

MissingValue == [kind |-> "missing", text |-> <<>>]
\* values without papers, and two small results
PlainValues == <<
    MissingValue,
    NoneValue,
    Str(<<>>),
    Str(<<" ", "\n">>),
    Str(NoResults),
    Str(ChunkPool[2]),
    Str(<<" ">> \o ChunkPool[2] \o <<"\n", "\n", "\n", "z", "z", " ">>) >>
RichValues ==
    {Str(Join([k \in DOMAIN e |-> ChunkPool[e[k]]], NLNL)) :
        e \in SeqsUpTo(DOMAIN ChunkPool, MaxChunks) \ {<<>>}}

\* the dict: a missing source is no key of it; "original_query" is the key
\* of the dict that is no source
MkResults(a, p, o, q) ==
    LET v == [arxiv |-> a, pubmed |-> p, openalex |-> o, original_query |-> Str(q)]
    IN [key \in {k \in DOMAIN v : v[k].kind # "missing"} |-> v[key]]

DedupeIdle ==
    /\ paper_texts = <<>> /\ combined_papers = <<>>
    /\ rededuped = <<>> /\ scenario = <<>>

InitRank ==
    /\ pc = "start"
    /\ StageIdle
    /\ DedupeIdle
    /\ RelIdle
    /\ SearchIdle
    /\ query \in Queries
    /\ max_total \in (0 - 1)..MaxTotal
    /\ now_year \in NowYears
    /\ \/ \E a \in RichValues :
              all_results = MkResults(a, Str(NoResults), Str(ChunkPool[2]), query)
       \/ \E a \in Range(PlainValues), i \in DOMAIN PlainValues :
              all_results = MkResults(a, PlainValues[i],
                                      PlainValues[(i % Len(PlainValues)) + 1], query)
    /\ scored = <<>>
    /\ top = <<>>
    /\ out = <<>>
    /\ enabled_sources = <<>>
    /\ final_results = <<>>
    /\ synthesis_calls = <<>>

\* trimmed_results = rank_and_trim_results(search_results, user_query, max_results)
RankAndTrim ==
    /\ pc = "start"
    /\ scored' = [arxiv |-> ScoredOf(all_results, "arxiv", query, now_year),
                  pubmed |-> ScoredOf(all_results, "pubmed", query, now_year),
                  openalex |-> ScoredOf(all_results, "openalex", query, now_year)]
    /\ top' = [arxiv |-> EmittedIdx(scored'.arxiv, max_total),
               pubmed |-> EmittedIdx(scored'.pubmed, max_total),
               openalex |-> EmittedIdx(scored'.openalex, max_total)]
    /\ out' = RankedDict(all_results, scored', max_total)
    /\ pc' = "ranked"
    /\ UNCHANGED <<stageVars, all_results, query, max_total, now_year,
                   enabled_sources, final_results, synthesis_calls,
                   dedupVars, relVars, searchVars>>

NextRank == RankAndTrim
SpecRank == InitRank /\ [][NextRank]_vars

(***************************************************************************)
(* Properties of rank-and-trim                                             *)
(***************************************************************************)
SourceSet == Range(Sources)
\* the chunk texts of a dict's value for a source, in order
ChunkTexts(d, source) ==
    LET cs == _parse_source_chunks(Get(d, source, Str(<<>>)))
    IN <<>> \o [k \in DOMAIN cs |-> cs[k].text]
\* a value that is a marker, not papers
IsMarker(d, source) ==
    /\ source \in DOMAIN d
    /\ d[source].kind = "str"
    /\ Strip(d[source].text) \in {NoResults, NoPapersFound}
PaperBlockCount(d, source) ==
    IF IsMarker(d, source) THEN 0 ELSE Len(ChunkTexts(d, source))
\* position of input chunk i in the emitted list (0 when it is not kept)
PosOf(emitted, i) ==
    IF \E k \in DOMAIN emitted : emitted[k] = i
    THEN CHOOSE k \in DOMAIN emitted : emitted[k] = i ELSE 0
\* what the claims say of one chunk
TokenOverlap(q, chunk_text) ==
    Cardinality(Range(_tokenize_for_scoring(q))
                \cap Range(_tokenize_for_scoring(ChunkMeta(chunk_text).title)))
ClaimedBonusX2(meta, year_now, clamped) ==
    LET y == ParseInt(meta.year)
        age == IF clamped THEN Max(0, year_now - y.val) ELSE year_now - y.val
    IN IF y.ok THEN Max(0, 6 - age) ELSE 0
\* the score rank_and_trim_results gave input chunk i of a source (in half points)
ScoreOfIdx(source, i) ==
    (CHOOSE e \in Range(scored[source]) : e.idx = i).score
\* the input positions sorted by non-increasing score, ties in input order
SortedIdx(source) ==
    LET n == Len(scored[source])
        rank(i) == 1 + Cardinality({j \in 1..n :
                          \/ ScoreOfIdx(source, j) > ScoreOfIdx(source, i)
                          \/ ScoreOfIdx(source, j) = ScoreOfIdx(source, i) /\ j < i})
    IN <<>> \o [r \in 1..n |-> CHOOSE i \in 1..n : rank(i) = r]
FirstN(lst, n) == SubSeq(lst, 1, IF n < Len(lst) THEN n ELSE Len(lst))

\* C4: for every input, source and max_total >= 0 (0 included) the output
\* holds at most max_total paper blocks for the source.
C4_AtMostMaxTotal ==
    (pc = "ranked" /\ max_total >= 0) =>
        \A s \in SourceSet : PaperBlockCount(out, s) <= max_total

C6_SortedPrefix ==
    (pc = "ranked" /\ max_total >= 0) =>
        \A s \in SourceSet :
            scored[s] # <<>> =>
                LET texts == ChunkTexts(all_results, s)
                    prefix == FirstN(SortedIdx(s), max_total)
                IN /\ top[s] = prefix
                   /\ ChunkTexts(out, s) = <<>> \o [k \in DOMAIN prefix |-> texts[prefix[k]]]

\* C7 as claimed: the score is 2 x |query tokens in the title| plus
\* max(0, 3 - 0.5 x age) with age = current year - paper year, not clamped,
\* and the bonus is 0 when the year is no integer (scores in half points).
C7_AsClaimed ==
    pc = "ranked" =>
        \A s \in SourceSet : \A e \in Range(scored[s]) :
            e.score = 4 * TokenOverlap(query, e.text)
                      + ClaimedBonusX2(ChunkMeta(e.text), now_year, FALSE)
\* C7 as amended: the score is 2 x |query tokens in the title| plus
\* max(0, 3 - 0.5 x age) with age = max(0, current year - paper year): a
\* paper dated after the current year gets the full bonus 3, not more; the
\* bonus is 0 when the year is no integer (scores in half points).
C7_ScoreFormula ==
    pc = "ranked" =>
        \A s \in SourceSet : \A e \in Range(scored[s]) :
            e.score = 4 * TokenOverlap(query, e.text)
                      + ClaimedBonusX2(ChunkMeta(e.text), now_year, TRUE)
\* a paper dated after the current year and a paper without a year are scored
C7_Witness ==
    /\ pc = "ranked"
    /\ \E e \in Range(scored["arxiv"]) :
           /\ ParseInt(ChunkMeta(e.text).year).ok
           /\ ParseInt(ChunkMeta(e.text).year).val > now_year
           /\ e.score = 4 * TokenOverlap(query, e.text) + 6
    /\ \E e \in Range(scored["arxiv"]) :
           /\ ~ParseInt(ChunkMeta(e.text).year).ok
           /\ TokenOverlap(query, e.text) = 1
           /\ e.score = 4

\* C8: a source without parseable blocks (missing, no string, empty or only
\* whitespace) or holding the no-results marker keeps its value, for every
\* max_total, and so does every key that is no source.
Unparseable(d, source) ==
    \/ source \notin DOMAIN d
    \/ d[source].kind # "str"
    \/ Strip(d[source].text) = <<>>
SameAt(key) ==
    /\ key \in DOMAIN out <=> key \in DOMAIN all_results
    /\ key \in DOMAIN out => out[key] = all_results[key]
C8_PassThrough ==
    pc = "ranked" =>
        /\ \A s \in SourceSet :
               (Unparseable(all_results, s) \/ Get(all_results, s, NoneValue) = Str(NoResults))
               => SameAt(s)
        /\ \A key \in (DOMAIN all_results \cup DOMAIN out) \ SourceSet : SameAt(key)
\* a missing source, a non-string and the marker pass through a cap of 0
C8_Witness ==
    /\ pc = "ranked"
    /\ max_total = 0
    /\ "pubmed" \notin DOMAIN all_results /\ "pubmed" \notin DOMAIN out
    /\ all_results["openalex"] = NoneValue /\ out["openalex"] = NoneValue
    /\ all_results["arxiv"] = Str(NoResults) /\ out["arxiv"] = Str(NoResults)
    /\ out["original_query"] = Str(query)

(***************************************************************************)
(* Relevance filter: RelevanceFilter (tools/relevance_filter.py)           *)
(*                                                                         *)
(* A score is the exact rational n/d (d > 0) of the float the code holds;  *)
(* the code only compares scores, and for the queries enumerated below (at *)
(* most two query terms) rounding to IEEE doubles changes no comparison.   *)
(***************************************************************************)
Rat(n, d) == [n |-> n, d |-> d]
RatGeq(a, b) == a.n * b.d >= b.n * a.d
RatLt(a, b) == a.n * b.d < b.n * a.d
RatEq(a, b) == a.n * b.d = b.n * a.d
RatMin(a, b) == IF RatLt(b, a) THEN b ELSE a

AbstractTag == <<"A", "b", "s", "t", "r", "a", "c", "t", ":">>
ByTag == <<"b", "y", " ">>
UrlTag == <<"U", "R", "L", ":">>
PdfTag == <<"P", "D", "F", ":">>
Unknown == <<"U", "n", "k", "n", "o", "w", "n">>

\* s.startswith(prefix) and s[n:]
StartsWith(s, prefix) == StartsWithAt(s, 1, prefix)
Drop(s, n) == SubSeq(s, n + 1, Len(s))

\* re.search(r'\((\d{4})\)', line): start of the first "(dddd)", 0 if none
RECURSIVE YearGroupFrom(_, _)
YearGroupFrom(s, i) ==
    IF i + 5 > Len(s) THEN 0
    ELSE IF s[i] = "(" /\ (\A k \in 1..4 : IsDigit(s[i + k])) /\ s[i + 5] = ")"
    THEN i
    ELSE YearGroupFrom(s, i + 1)

\* one pass of the `for line in lines[1:]` loop of _parse_papers_from_text
ParseLine(acc, raw) ==
    LET line == Strip(raw)
    IN IF StartsWith(line, AbstractTag)
       THEN [acc EXCEPT !.abstract = Strip(Drop(line, 9))]
       ELSE IF StartsWith(line, ByTag)
       THEN [acc EXCEPT !.authors = Strip(Drop(line, 3))]
       ELSE IF StartsWith(line, UrlTag)
       THEN [acc EXCEPT !.url = Strip(Drop(line, 4))]
       ELSE IF StartsWith(line, PdfTag)
       THEN [acc EXCEPT !.pdf = Strip(Drop(line, 4))]
       ELSE IF ~Contains(line, AbstractTag)
               /\ ~(\/ StartsWith(line, ByTag) \/ StartsWith(line, UrlTag)
                    \/ StartsWith(line, PdfTag))
       THEN IF acc.abstract # <<>>
            THEN [acc EXCEPT !.abstract = acc.abstract \o <<" ">> \o line]
            ELSE IF acc.authors = <<>> /\ acc.url = <<>> /\ acc.pdf = <<>>
                    /\ Len(line) > 50
            THEN [acc EXCEPT !.abstract = line]
            ELSE acc
       ELSE acc
RECURSIVE ParseLines(_, _, _)
ParseLines(lines, k, acc) ==
    IF k > Len(lines) THEN acc
    ELSE ParseLines(lines, k + 1, ParseLine(acc, lines[k]))

\* hash(s) % 10000 of a str: it depends on the seed the process drew.  Under
\* seed 0 the strings hashed in a run all get different values, under seed 1
\* they collide
StrHash(s) == IF hash_seed = 0 THEN s ELSE <<>>

\* the dict built for the block at index i (0-based) of paper_blocks; the
\* paper_id f"paper_{i}_{hash(title) % 10000}" is the pair of i and the hash
ParseBlock(i, block) ==
    LET lines == Split(Strip(block), NL)
        title_line == lines[1]
        y == YearGroupFrom(title_line, 1)
        title == Strip(SubYearSuffix(title_line))
        fields == ParseLines(lines, 2, [abstract |-> <<>>, authors |-> <<>>,
                                        url |-> <<>>, pdf |-> <<>>])
    IN [paper_id |-> [i |-> i, hash |-> StrHash(title)],
        title |-> title,
        abstract |-> fields.abstract,
        authors |-> fields.authors,
        year |-> IF y = 0 THEN Unknown ELSE SubSeq(title_line, y + 1, y + 4),
        url |-> fields.url,
        pdf |-> fields.pdf]

RECURSIVE ParseBlocks(_, _)
ParseBlocks(paper_blocks, k) ==
    IF k > Len(paper_blocks) THEN <<>>
    ELSE IF Strip(paper_blocks[k]) = <<>> THEN ParseBlocks(paper_blocks, k + 1)
    ELSE <<ParseBlock(k - 1, paper_blocks[k])>>
         \o ParseBlocks(paper_blocks, k + 1)
_parse_papers_from_text(text) == ParseBlocks(Split(text, NLNL), 1)

\* re.findall(r'\b[a-zA-Z]{3,}\b', query_lower): a match is delimited by word
\* boundaries, so it is a whole maximal run of word characters (letters,
\* digits, underscore) that holds letters only, at least three of them
IsWordChar(c) == IsAlnum(c) \/ c = "_"
RECURSIVE WordRunsFrom(_, _, _)
WordRunsFrom(s, i, cur) ==
    LET done == IF cur = <<>> THEN <<>> ELSE <<cur>>
    IN IF i > Len(s) THEN done
       ELSE IF IsWordChar(s[i]) THEN WordRunsFrom(s, i + 1, Append(cur, s[i]))
       ELSE done \o WordRunsFrom(s, i + 1, <<>>)
QueryTerms(query_lower) ==
    {w \in Range(WordRunsFrom(query_lower, 1, <<>>)) :
        Len(w) >= 3 /\ \A i \in DOMAIN w : IsAlpha(w[i])}

\* str(n) of a natural number
RECURSIVE NatText(_)
NatText(n) ==
    IF n < 10 THEN <<DigitChars[n + 1]>>
    ELSE NatText(n \div 10) \o <<DigitChars[(n % 10) + 1]>>

\* the PaperRelevanceScore of the keyword fallback, with the weights given
KeywordScoring(q, paper, title_weight, abstract_weight) ==
    LET title_lower == Lower(Get(paper, "title", <<>>))
        abstract_lower == Lower(Get(paper, "abstract", <<>>))
        query_terms == QueryTerms(Lower(q))
        title_matches ==
            Cardinality({t \in query_terms : Contains(title_lower, t)})
        abstract_matches ==
            Cardinality({t \in query_terms : Contains(abstract_lower, t)})
        total_terms == Cardinality(query_terms)
        relevance_score ==
            IF total_terms = 0 THEN Rat(0, 1)
            ELSE RatMin(Rat(1, 1),
                        Rat(title_weight * title_matches
                            + abstract_weight * abstract_matches,
                            10 * total_terms))
        matched_terms == {t \in query_terms : \/ Contains(title_lower, t)
                                              \/ Contains(abstract_lower, t)}
    IN [paper_id |-> Get(paper, "paper_id", <<"unknown">>),
        title |-> Get(paper, "title", <<>>),
        relevance_score |-> relevance_score,
        relevance_reasons |->
            << <<"K", "e", "y", "w", "o", "r", "d", " ", "m", "a", "t", "c",
                 "h", "i", "n", "g", ":", " ">>
               \o NatText(Cardinality(matched_terms)) \o <<"/">>
               \o NatText(total_terms)
               \o <<" ", "t", "e", "r", "m", "s", " ", "m", "a", "t", "c",
                    "h", "e", "d">> >>,
        key_concepts_matched |-> matched_terms,
        is_relevant |-> RatGeq(relevance_score, Rat(4, 10)),
        confidence |-> Rat(6, 10)]

FallbackAbstractWeighted(q, paper) == KeywordScoring(q, paper, 3, 7)
\* title_weight = 0.7, abstract_weight = 0.3
_fallback_relevance_scoring(q, paper) == KeywordScoring(q, paper, 7, 3)

\* the try branch of evaluate_paper_relevance, for a parsed JSON `evaluation`
ScoreFromEvaluation(evaluation, paper) ==
    [paper_id |-> Get(evaluation, "paper_id",
                      Get(paper, "paper_id", <<"unknown">>)),
     title |-> Get(paper, "title", <<>>),
     relevance_score |-> Get(evaluation, "relevance_score", Rat(0, 1)),
     relevance_reasons |-> Get(evaluation, "relevance_reasons", <<>>),
     key_concepts_matched |-> Get(evaluation, "key_concepts_matched", {}),
     is_relevant |-> Get(evaluation, "is_relevant", FALSE),
     confidence |-> Get(evaluation, "confidence", Rat(0, 1))]

\* scored_papers.sort(key=lambda x: x.relevance_score, reverse=True)
RECURSIVE InsertByRelevance(_, _)
InsertByRelevance(sorted, x) ==
    IF sorted = <<>> THEN <<x>>
    ELSE IF RatGeq(Head(sorted).relevance_score, x.relevance_score)
    THEN <<Head(sorted)>> \o InsertByRelevance(Tail(sorted), x)
    ELSE <<x>> \o sorted
RECURSIVE SortByRelevanceFrom(_, _, _)
SortByRelevanceFrom(lst, k, sorted) ==
    IF k > Len(lst) THEN sorted
    ELSE SortByRelevanceFrom(lst, k + 1, InsertByRelevance(sorted, lst[k]))
SortByRelevance(lst) == SortByRelevanceFrom(lst, 1, <<>>)

\* the optional max_papers argument: None or an int, and its truth value
NoCap == [kind |-> "none", val |-> 0]
IntCap(n) == [kind |-> "int", val |-> n]
Truthy(cap) == cap.kind = "int" /\ cap.val # 0

PaperIds(lst) == <<>> \o [i \in DOMAIN lst |-> lst[i].paper_id]

\* filter_papers_by_relevance from the sorted scored_papers to the result
RelevantPapers(sorted, min_score, cap) ==
    LET relevant_papers ==
            SelectSeq(sorted, LAMBDA p : RatGeq(p.relevance_score, min_score))
    IN IF Truthy(cap) /\ Len(relevant_papers) > cap.val
       THEN Slice(relevant_papers, cap.val)
       ELSE relevant_papers
FilterResults(original_count, relevant_papers) ==
    [original_count |-> original_count,
     filtered_count |-> Len(relevant_papers),
     papers_scored |-> relevant_papers,
     highly_relevant |-> PaperIds(SelectSeq(relevant_papers,
         LAMBDA p : RatGeq(p.relevance_score, Rat(7, 10)))),
     moderately_relevant |-> PaperIds(SelectSeq(relevant_papers,
         LAMBDA p : /\ RatGeq(p.relevance_score, Rat(4, 10))
                    /\ RatLt(p.relevance_score, Rat(7, 10)))),
     low_relevant |-> PaperIds(SelectSeq(relevant_papers,
         LAMBDA p : RatLt(p.relevance_score, Rat(4, 10))))]

(***************************************************************************)
(* Inputs of the relevance filter                                          *)
(***************************************************************************)
MaxPapers == 2
MaxCap == 1

\* a line of more than 50 characters that carries no tag
LongLine == Join([n \in 1..7 |-> <<"a", "b", "c", " ", "d", "e", "f">>], <<" ">>)

\* paper blocks: tagged and untagged lines, a year or none, a blank block
BlockPool == <<
    \* "abc def (2024) by x\nURL: u"
    <<"a", "b", "c", " ", "d", "e", "f", " ", "(", "2", "0", "2", "4", ")",
      " ", "b", "y", " ", "x", "\n", "U", "R", "L", ":", " ", "u">>,
    \* "Abcd (2023)\nAbstract: def"
    <<"A", "b", "c", "d", " ", "(", "2", "0", "2", "3", ")", "\n", "A",
      "b", "s", "t", "r", "a", "c", "t", ":", " ", "d", "e", "f">>,
    \* "xyz" followed by the long line
    <<"x", "y", "z", "\n">> \o LongLine,
    \* "def ab 12 (2020)"
    <<"d", "e", "f", " ", "a", "b", " ", "1", "2", " ", "(", "2", "0", "2",
      "0", ")">>,
    \* " "
    <<" ">> >>

\* queries with two terms, one term and no term of three letters
RelQueries == { <<"a", "b", "c", " ", "d", "e", "f">>, <<"A", "b", "c">>,
                <<"a", "b", " ", "1", "2">> }
MinScores == {Rat(4, 10), Rat(3, 10)}
Caps == {NoCap} \cup {IntCap(n) : n \in 0..MaxCap}

\* what the scoring agent may answer: a JSON object with or without a
\* paper_id of its own, its numbers being whatever the agent wrote
Evaluations == {
    [relevance_score |-> Rat(9, 10), is_relevant |-> TRUE,
     confidence |-> Rat(8, 10)],
    [paper_id |-> [i |-> 0, hash |-> <<"x">>], relevance_score |-> Rat(3, 10),
     is_relevant |-> FALSE, confidence |-> Rat(5, 10)],
    \* numbers outside the range the prompt asks for
    [relevance_score |-> Rat(3, 2), is_relevant |-> TRUE,
     confidence |-> Rat(0 - 1, 2)] }

InitRel ==
    /\ pc = "start"
    /\ StageIdle
    /\ DedupeIdle
    /\ RankIdle
    /\ SearchIdle
    /\ rel_query \in RelQueries
    /\ \E e \in SeqsUpTo(DOMAIN BlockPool, MaxPapers) :
           papers_text = Join(<<>> \o [k \in DOMAIN e |-> BlockPool[e[k]]], NLNL)
    /\ min_relevance_score \in MinScores
    /\ max_papers \in Caps
    /\ papers = <<>>
    /\ scored_papers = <<>>
    /\ eval_path = <<>>
    /\ filter_results = <<>>
    /\ formatted_text = <<>>

\* papers = self._parse_papers_from_text(papers_text), and the early return
ParsePapers ==
    /\ pc = "start"
    /\ papers' = _parse_papers_from_text(papers_text)
    /\ IF papers' = <<>>
       THEN /\ filter_results' = FilterResults(0, <<>>)
            /\ pc' = "done"
       ELSE /\ filter_results' = filter_results
            /\ pc' = "evaluate"
    /\ UNCHANGED <<stageVars, rel_query, formatted_text, papers_text, min_relevance_score, max_papers,
                   scored_papers, eval_path, dedupVars, rankVars, searchVars>>

\* evaluate_paper_relevance of the next paper: the agent answered valid JSON
EvaluateByAgent ==
    /\ pc = "evaluate"
    /\ Len(scored_papers) < Len(papers)
    /\ \E evaluation \in Evaluations :
           scored_papers' = Append(scored_papers,
               ScoreFromEvaluation(evaluation, papers[Len(scored_papers) + 1]))
    /\ eval_path' = Append(eval_path, "agent")
    /\ UNCHANGED <<stageVars, pc, rel_query, formatted_text, papers_text, min_relevance_score, max_papers,
                   papers, filter_results, dedupVars, rankVars, searchVars>>

\* evaluate_paper_relevance of the next paper: the try block raised
EvaluateByFallback ==
    /\ pc = "evaluate"
    /\ Len(scored_papers) < Len(papers)
    /\ scored_papers' = Append(scored_papers,
           _fallback_relevance_scoring(rel_query, papers[Len(scored_papers) + 1]))
    /\ eval_path' = Append(eval_path, "fallback")
    /\ UNCHANGED <<stageVars, pc, rel_query, formatted_text, papers_text, min_relevance_score, max_papers,
                   papers, filter_results, dedupVars, rankVars, searchVars>>

\* after the loop: sort in place, filter, cap, categorize, return
FinishFilter ==
    /\ pc = "evaluate"
    /\ Len(scored_papers) = Len(papers)
    /\ scored_papers' = SortByRelevance(scored_papers)
    /\ filter_results' = FilterResults(Len(papers),
           RelevantPapers(scored_papers', min_relevance_score, max_papers))
    /\ pc' = "done"
    /\ UNCHANGED <<stageVars, rel_query, formatted_text, papers_text, min_relevance_score, max_papers,
                   papers, eval_path, dedupVars, rankVars, searchVars>>

\* f"{x:.2f}" of a score, rounded to hundredths
FormatScore(x) ==
    LET mag == IF x.n < 0 THEN 0 - x.n ELSE x.n
        h == (200 * mag + x.d) \div (2 * x.d)
    IN (IF x.n < 0 THEN <<"-">> ELSE <<>>)
       \o NatText(h \div 100) \o <<".">>
       \o NatText((h % 100) \div 10) \o NatText(h % 10)

\* the characters of the relevance indicators that lie outside ASCII
DirectHit == "U+1F3AF"
Star == "U+2B50"
CheckMark == "U+2713"
NoRelevantPapersFound == <<"N", "o", " ", "r", "e", "l", "e", "v", "a", "n", "t", " ", "p", "a", "p", "e", "r", "s", " ", "f", "o", "u", "n", "d", ".">>

\* the indicator chosen by the score
RelevanceIndicator(relevance_score) ==
    IF RatGeq(relevance_score, Rat(9, 10))
    THEN <<DirectHit>> \o <<" ", "H", "I", "G", "H", "L", "Y", " ", "R", "E", "L", "E", "V", "A", "N", "T">>
    ELSE IF RatGeq(relevance_score, Rat(7, 10))
    THEN <<Star>> \o <<" ", "V", "E", "R", "Y", " ", "R", "E", "L", "E", "V", "A", "N", "T">>
    ELSE IF RatGeq(relevance_score, Rat(5, 10))
    THEN <<CheckMark>> \o <<" ", "R", "E", "L", "E", "V", "A", "N", "T">>
    ELSE <<"~", " ", "S", "O", "M", "E", "W", "H", "A", "T", " ", "R", "E", "L", "E", "V", "A", "N", "T">>

\* '; '.join(scored_paper.relevance_reasons[:2])
ReasonsText(relevance_reasons) ==
    Join(Slice(relevance_reasons, 2), <<";", " ">>)

\* the part of one scored paper whose paper was found
FormattedPart(paper, scored_paper) ==
    paper.title
    \o (IF paper.year # Unknown THEN <<" ", "(">> \o paper.year \o <<")">> ELSE <<>>)
    \o (IF paper.authors # <<>> THEN <<" ", "b", "y", " ">> \o paper.authors ELSE <<>>)
    \o <<"\n", "[">> \o RelevanceIndicator(scored_paper.relevance_score)
    \o <<" ", "-", " ", "S", "c", "o", "r", "e", ":", " ">> \o FormatScore(scored_paper.relevance_score) \o <<"]">>
    \o (IF scored_paper.relevance_reasons # <<>>
        THEN <<"\n", "R", "e", "l", "e", "v", "a", "n", "c", "e", ":", " ">> \o ReasonsText(scored_paper.relevance_reasons)
        ELSE <<>>)
    \o (IF paper.abstract # <<>> THEN <<"\n", "A", "b", "s", "t", "r", "a", "c", "t", ":", " ">> \o paper.abstract
        ELSE <<>>)
    \o (IF paper.url # <<>> THEN <<"\n", "U", "R", "L", ":", " ">> \o paper.url ELSE <<>>)
    \o (IF paper.pdf # <<>> THEN <<"\n", "P", "D", "F", ":", " ">> \o paper.pdf ELSE <<>>)

\* paper_lookup.get(scored_paper.paper_id): the last paper of that id
Lookup(parsed, paper_id) ==
    LET hits == SelectSeq(parsed, LAMBDA p : p.paper_id = paper_id)
    IN IF hits = <<>> THEN <<>> ELSE << hits[Len(hits)] >>

FormattedParts(parsed, papers_scored) ==
    Flatten([k \in DOMAIN papers_scored |->
        LET found == Lookup(parsed, papers_scored[k].paper_id)
        IN IF found = <<>> THEN <<>>
           ELSE << FormattedPart(found[1], papers_scored[k]) >>])

format_filtered_papers(text, results) ==
    IF results.papers_scored = <<>> THEN NoRelevantPapersFound
    ELSE Join(FormattedParts(_parse_papers_from_text(text),
                             results.papers_scored), NLNL)

\* formatted_text = filter_system.format_filtered_papers(papers_text,
\* filter_results), the last step of the convenience function
FormatFilteredPapers ==
    /\ pc = "done"
    /\ formatted_text' = format_filtered_papers(papers_text, filter_results)
    /\ pc' = "formatted"
    /\ UNCHANGED <<stageVars, rel_query, papers_text, min_relevance_score,
                   max_papers, papers, scored_papers, eval_path,
                   filter_results, dedupVars, rankVars, searchVars>>

NextRel ==
    \/ ParsePapers \/ EvaluateByAgent \/ EvaluateByFallback \/ FinishFilter
    \/ FormatFilteredPapers
SpecRel == InitRel /\ [][NextRel]_vars

(***************************************************************************)
(* Properties of the relevance filter                                      *)
(***************************************************************************)
\* the terms the fallback extracts from the query of this run
RunTerms == QueryTerms(Lower(rel_query))

\* paper k has an empty abstract and its title holds every query term
FullTitleMatch(k) ==
    /\ papers[k].abstract = <<>>
    /\ \A t \in RunTerms : Contains(Lower(papers[k].title), t)

\* score k was produced by the fallback scorer for paper k
ScoredByFallback(k) ==
    /\ pc = "evaluate"
    /\ k \in DOMAIN scored_papers
    /\ eval_path[k] = "fallback"

ScoresSeventy(k) ==
    /\ RatEq(scored_papers[k].relevance_score, Rat(7, 10))
    /\ scored_papers[k].is_relevant

\* C9 as stated: for every query, a paper whose title contains all the query
\* tokens and whose abstract is empty gets score 0.7 from the fallback scorer
\* and is marked admitted.
C9_AsClaimed ==
    \A k \in DOMAIN papers :
        ScoredByFallback(k) /\ FullTitleMatch(k) => ScoresSeventy(k)

\* C9: for every query that has at least one term (a word of three or more
\* letters), a paper whose title contains all the query terms and whose
\* abstract is empty gets score 0.7 from the fallback scorer and is marked
\* admitted; for a query without any term the fallback score is 0 and the
\* paper is not admitted.
C9_FullTitleMatchScores ==
    \A k \in DOMAIN papers :
        ScoredByFallback(k) /\ FullTitleMatch(k) =>
            IF RunTerms # {} THEN ScoresSeventy(k)
            ELSE /\ RatEq(scored_papers[k].relevance_score, Rat(0, 1))
                 /\ ~scored_papers[k].is_relevant

\* a two-term query whose terms the title of a paper without abstract holds,
\* scored by the fallback at 0.7 and admitted
C9_Witness ==
    \E k \in DOMAIN papers :
        /\ ScoredByFallback(k)
        /\ FullTitleMatch(k)
        /\ Cardinality(RunTerms) = 2
        /\ ScoresSeventy(k)

\* the papers that pass the threshold, in the order of the sorted list
SortedAdmitted ==
    SelectSeq(scored_papers,
              LAMBDA p : RatGeq(p.relevance_score, min_relevance_score))

IsSortedByRelevance(lst) ==
    \A i, j \in DOMAIN lst :
        i < j => RatGeq(lst[i].relevance_score, lst[j].relevance_score)

\* C10: whenever max_papers is given (an integer >= 0), the retained list has
\* at most max_papers papers and is the head of the descending score-sorted
\* list of the papers with score >= min_relevance_score.
C10_CapRespected ==
    pc = "done" /\ papers # <<>> /\ max_papers.kind = "int" =>
        /\ IsSortedByRelevance(scored_papers)
        /\ Len(filter_results.papers_scored) <= max_papers.val
        /\ filter_results.papers_scored = FirstN(SortedAdmitted, max_papers.val)

(***************************************************************************)
(* Score ranges                                                            *)
(***************************************************************************)
InUnitInterval(x) == RatGeq(x, Rat(0, 1)) /\ RatGeq(Rat(1, 1), x)

\* C11: whatever the scoring and classification agents return, and on the
\* fallback paths, every PaperRelevanceScore.relevance_score and confidence
\* and every DomainClassificationResult.relevance_score lies in [0, 1].
C11_ScoresInUnitInterval ==
    /\ \A k \in DOMAIN scored_papers :
           /\ InUnitInterval(scored_papers[k].relevance_score)
           /\ InUnitInterval(scored_papers[k].confidence)
    /\ \A k \in DOMAIN classifications :
           InUnitInterval(classifications[k].relevance_score)

(***************************************************************************)
(* Domain classifier: DomainClassifier (tools/domain_classifier.py)        *)
(***************************************************************************)
\* the values of the enum ResearchDomain
ResearchDomains == {
    <<"p", "h", "y", "s", "i", "c", "s">>,
    <<"e", "n", "g", "i", "n", "e", "e", "r", "i", "n", "g">>,
    <<"c", "o", "m", "p", "u", "t", "e", "r", "_", "s", "c", "i", "e", "n", "c", "e">>,
    <<"m", "a", "t", "h", "e", "m", "a", "t", "i", "c", "s">>,
    <<"c", "h", "e", "m", "i", "s", "t", "r", "y">>,
    <<"m", "a", "t", "e", "r", "i", "a", "l", "s", "_", "s", "c", "i", "e", "n", "c", "e">>,
    <<"b", "i", "o", "l", "o", "g", "y">>,
    <<"m", "e", "d", "i", "c", "i", "n", "e">>,
    <<"n", "e", "u", "r", "o", "s", "c", "i", "e", "n", "c", "e">>,
    <<"p", "s", "y", "c", "h", "o", "l", "o", "g", "y">>,
    <<"e", "c", "o", "n", "o", "m", "i", "c", "s">>,
    <<"e", "n", "v", "i", "r", "o", "n", "m", "e", "n", "t", "a", "l", "_", "s", "c", "i", "e", "n", "c", "e">>,
    <<"a", "s", "t", "r", "o", "n", "o", "m", "y">>,
    <<"g", "e", "o", "s", "c", "i", "e", "n", "c", "e", "s">>,
    <<"s", "t", "a", "t", "i", "s", "t", "i", "c", "s">> }

\* _load_domain_patterns, in the order of the dict: an excerpt, four of the
\* nine domains with some of their patterns
DomainPatterns == <<
    [domain |-> <<"p", "h", "y", "s", "i", "c", "s">>,
     keywords |-> << <<"w", "a", "v", "e">>, <<"p", "l", "a", "s", "m", "a">> >>,
     methods |-> << <<"s", "c", "a", "t", "t", "e", "r", "i", "n", "g">> >>,
     applications |-> << <<"l", "a", "s", "e", "r">> >>],
    [domain |-> <<"e", "n", "g", "i", "n", "e", "e", "r", "i", "n", "g">>,
     keywords |-> << <<"d", "e", "s", "i", "g", "n">>, <<"c", "i", "v", "i", "l">> >>,
     methods |-> << <<"C", "A", "D">> >>,
     applications |-> << <<"p", "u", "m", "p">> >>],
    [domain |-> <<"b", "i", "o", "l", "o", "g", "y">>,
     keywords |-> << <<"e", "c", "o", "l", "o", "g", "y">> >>,
     methods |-> << <<"P", "C", "R">> >>,
     applications |-> << <<"c", "o", "n", "s", "e", "r", "v", "a", "t", "i", "o", "n">> >>],
    [domain |-> <<"a", "s", "t", "r", "o", "n", "o", "m", "y">>,
     keywords |-> << <<"s", "t", "a", "r">> >>,
     methods |-> << <<"p", "h", "o", "t", "o", "m", "e", "t", "r", "y">> >>,
     applications |-> << <<"s", "a", "t", "e", "l", "l", "i", "t", "e">> >>] >>

\* _load_exclusion_patterns: an excerpt
ExclusionPatterns == <<
    [domain |-> <<"e", "n", "g", "i", "n", "e", "e", "r", "i", "n", "g">>,
     patterns |-> << <<"c", "o", "s", "m", "o", "l", "o", "g", "y">>, <<"e", "c", "o", "l", "o", "g", "y">> >>],
    [domain |-> <<"p", "h", "y", "s", "i", "c", "s">>,
     patterns |-> << <<"b", "u", "s", "i", "n", "e", "s", "s", " ", "m", "o", "d", "e", "l">> >>] >>

\* self._exclusion_patterns.get(target_domain, [])
ExclusionPatternsOf(target_domain) ==
    IF \E k \in DOMAIN ExclusionPatterns :
           ExclusionPatterns[k].domain = target_domain
    THEN ExclusionPatterns[CHOOSE k \in DOMAIN ExclusionPatterns :
                               ExclusionPatterns[k].domain = target_domain].patterns
    ELSE <<>>

\* the number of entries of a pattern list that occur in the text
Hits(patterns, text) ==
    Cardinality({k \in DOMAIN patterns : Contains(text, Lower(patterns[k]))})

\* detect_domains_from_text
DomainScore(entry, text) ==
    2 * Hits(entry.keywords, text) + 3 * Hits(entry.methods, text)
    + Hits(entry.applications, text)
detect_domains_from_text(title, abstract) ==
    LET text == Lower(title \o <<" ">> \o abstract)
        all == <<>> \o [k \in DOMAIN DomainPatterns |->
                   [domain |-> DomainPatterns[k].domain,
                    score |-> DomainScore(DomainPatterns[k], text)]]
        domain_scores == SelectSeq(all, LAMBDA e : e.score > 0)
        found == {domain_scores[k].score : k \in DOMAIN domain_scores}
        max_score == CHOOSE m \in found : \A o \in found : m >= o
        \* score >= max(2, max_score * 0.3), in tenths
        relevant_domains ==
            SelectSeq(domain_scores,
                      LAMBDA e : 10 * e.score >= Max(20, 3 * max_score))
        sorted == SortDesc(relevant_domains)
    IN IF domain_scores = <<>> THEN <<>>
       ELSE <<>> \o [k \in DOMAIN sorted |-> sorted[k].domain]

\* check_domain_exclusions: the reasons, each the pattern and the domain
RECURSIVE ExclusionReasons(_, _, _)
ExclusionReasons(text, target_domains, k) ==
    IF k > Len(target_domains) THEN <<>>
    ELSE LET target_domain == target_domains[k]
             exclusion_patterns == ExclusionPatternsOf(target_domain)
         IN SelectSeq(
                <<>> \o [p \in DOMAIN exclusion_patterns |->
                    [pattern |-> exclusion_patterns[p], domain |-> target_domain]],
                LAMBDA r : Contains(text, Lower(r.pattern)))
            \o ExclusionReasons(text, target_domains, k + 1)
check_domain_exclusions(title, abstract, target_domains) ==
    LET exclusion_reasons ==
            ExclusionReasons(Lower(title \o <<" ">> \o abstract), target_domains, 1)
    IN [should_exclude |-> Len(exclusion_reasons) > 0,
        exclusion_reasons |-> exclusion_reasons]

InSeq(x, lst) == \E k \in DOMAIN lst : lst[k] = x

Physics == <<"p", "h", "y", "s", "i", "c", "s">>
Engineering == <<"e", "n", "g", "i", "n", "e", "e", "r", "i", "n", "g">>
Astronomy == <<"a", "s", "t", "r", "o", "n", "o", "m", "y">>
ComputerScience == <<"c", "o", "m", "p", "u", "t", "e", "r", "_", "s", "c", "i", "e", "n", "c", "e">>

\* the DomainContext argument: None, or a context with its domain lists
NoContext ==
    [kind |-> "none", primary_domains |-> <<>>, exclude_domains |-> <<>>,
     focus_keywords |-> <<>>]
DomainContext(primary_domains, exclude_domains) ==
    [kind |-> "context", primary_domains |-> primary_domains,
     exclude_domains |-> exclude_domains, focus_keywords |-> <<>>]

\* the except branch of classify_paper_domain, with exclusions disregarded
RuleBasedIgnoringExclusions(paper_id, detected_domains, excl, ctx) ==
    LET is_relevant == \E k \in DOMAIN detected_domains :
                           InSeq(detected_domains[k], ctx.primary_domains)
    IN [paper_id |-> paper_id,
        detected_domains |-> detected_domains,
        domain_scores |-> [dm \in Range(detected_domains) |-> Rat(1, 1)],
        is_relevant_to_context |-> is_relevant,
        relevance_score |-> IF is_relevant THEN Rat(7, 10) ELSE Rat(1, 10),
        exclusion_reasons |-> excl.exclusion_reasons]

\* the except branch of classify_paper_domain
RuleBasedClassification(paper_id, detected_domains, excl, ctx) ==
    LET is_relevant ==
            /\ ~excl.should_exclude
            /\ \E k \in DOMAIN detected_domains :
                   InSeq(detected_domains[k], ctx.primary_domains)
    IN [paper_id |-> paper_id,
        detected_domains |-> detected_domains,
        domain_scores |-> [dm \in Range(detected_domains) |-> Rat(1, 1)],
        is_relevant_to_context |-> is_relevant,
        relevance_score |-> IF is_relevant THEN Rat(7, 10) ELSE Rat(1, 10),
        exclusion_reasons |-> excl.exclusion_reasons]

\* all_domains: the detected domains, then the valid secondary domains the
\* list does not hold yet
RECURSIVE WithSecondary(_, _, _)
WithSecondary(all_domains, names, k) ==
    IF k > Len(names) THEN all_domains
    ELSE IF names[k] \in ResearchDomains /\ ~InSeq(names[k], all_domains)
    THEN WithSecondary(Append(all_domains, names[k]), names, k + 1)
    ELSE WithSecondary(all_domains, names, k + 1)

\* the try branch of classify_paper_domain once json.loads returned the dict
\* ai_classification; ok is FALSE where ResearchDomain(...) raises ValueError
AgentClassification(paper_id, detected_domains, excl, ai_classification) ==
    LET primary_name ==
            Get(ai_classification, "primary_domain",
                IF detected_domains # <<>> THEN detected_domains[1]
                ELSE ComputerScience)
        raw_scores == Get(ai_classification, "domain_scores", <<>>)
        should_exclude == excl.should_exclude
    IN [ok |-> primary_name \in ResearchDomains,
        result |->
          [paper_id |-> paper_id,
           detected_domains |->
               WithSecondary(detected_domains,
                   Get(ai_classification, "secondary_domains", <<>>), 1),
           domain_scores |->
               [dm \in {raw_scores[k].domain : k \in DOMAIN raw_scores}
                       \cap ResearchDomains |->
                   raw_scores[CHOOSE k \in DOMAIN raw_scores :
                       /\ raw_scores[k].domain = dm
                       /\ \A j \in DOMAIN raw_scores :
                              raw_scores[j].domain = dm => j <= k].score],
           is_relevant_to_context |->
               IF should_exclude THEN FALSE
               ELSE Get(ai_classification, "is_relevant", TRUE),
           relevance_score |->
               IF should_exclude THEN Rat(0, 1)
               ELSE Get(ai_classification, "overall_relevance", Rat(1, 2)),
           exclusion_reasons |->
               IF should_exclude
               THEN excl.exclusion_reasons
                    \o Get(ai_classification, "exclusion_reasons", <<>>)
               ELSE excl.exclusion_reasons]]

\* classify_paper_domain; outcome is what the classification agent did:
\* kind "raise" (the call or json.loads raised) or "json" with the dict.
\* path tells how the try block ended: "agent" (it completed), "ValueError"
\* (ResearchDomain(...) raised) or "raise"; the last two run the except branch
classify_paper_domain(paper_id, title, abstract, ctx, outcome) ==
    LET detected_domains == detect_domains_from_text(title, abstract)
        excl == check_domain_exclusions(title, abstract, ctx.primary_domains)
        by_agent == AgentClassification(paper_id, detected_domains, excl,
                                        outcome.value)
    IN IF outcome.kind = "json" /\ by_agent.ok
       THEN [path |-> "agent", result |-> by_agent.result]
       ELSE [path |-> IF outcome.kind = "json" THEN "ValueError" ELSE "raise",
             result |-> RuleBasedClassification(paper_id, detected_domains,
                                                excl, ctx)]

(***************************************************************************)
(* Domain and relevance stages of EnhancedArxivSearch.enhanced_search      *)
(***************************************************************************)
\* f"\n[DOMAIN: {', '.join(... detected_domains[:2])} - Score: {score:.2f}]"
DomainInfo(domain_result) ==
    <<"\n", "[", "D", "O", "M", "A", "I", "N", ":", " ">>
    \o Join(Slice(domain_result.detected_domains, 2), <<",", " ">>)
    \o <<" ", "-", " ", "S", "c", "o", "r", "e", ":", " ">> \o FormatScore(domain_result.relevance_score) \o <<"]">>

\* f"paper_{i}_{hash(block.split('\n')[0]) % 10000}"
RecomputedId(i, block) == [i |-> i, hash |-> StrHash(Split(block, NL)[1])]

\* classify_papers_by_domain returns the classifications relevant to the context
RelevantToContext(results) ==
    SelectSeq(results, LAMBDA r : r.is_relevant_to_context)

\* filtered_blocks: the blocks whose recomputed id a relevant result carries,
\* each with the domain info of the first result of that id
RECURSIVE FilteredBlocks(_, _, _)
FilteredBlocks(paper_blocks, k, results) ==
    IF k > Len(paper_blocks) THEN <<>>
    ELSE LET block == paper_blocks[k]
             paper_id == RecomputedId(k - 1, block)
             relevant == SelectSeq(results,
                 LAMBDA r : r.is_relevant_to_context /\ r.paper_id = paper_id)
         IN (IF Strip(block) # <<>> /\ relevant # <<>>
             THEN <<block \o DomainInfo(relevant[1])>>
             ELSE <<>>)
            \o FilteredBlocks(paper_blocks, k + 1, results)

\* domain_filtered_papers after step 5, from what classify_papers_by_domain
\* returned
DomainFilteredPapers(combined, results) ==
    IF results # <<>>
    THEN Join(FilteredBlocks(Split(combined, NLNL), 1, results), NLNL)
    ELSE combined

NoResultList == [kind |-> "none", list |-> <<>>]
ResultList(lst) == [kind |-> "list", list |-> lst]

(***************************************************************************)
(* Inputs of the filter stages                                             *)
(***************************************************************************)
\* paper blocks: well-formed first lines 'Title (Year) by Authors' and bare
\* titles; engineering, physics with astronomy, an excluded topic, and a
\* single application hit that stays under the detection threshold
DomainBlockPool == <<
    <<"c", "i", "v", "i", "l", " ", "p", "u", "m", "p", " ", "(", "2", "0", "2", "4", ")", " ", "b", "y", " ", "x", "\n", "A", "b", "s", "t", "r", "a", "c", "t", ":", " ", "C", "A", "D">>,
    <<"s", "t", "a", "r", " ", "w", "a", "v", "e", " ", "(", "2", "0", "2", "3", ")", " ", "b", "y", " ", "y">>,
    <<"c", "i", "v", "i", "l", " ", "e", "c", "o", "l", "o", "g", "y">>,
    <<"l", "a", "s", "e", "r">> >>

Contexts == { NoContext,
              DomainContext(<<Engineering>>, <<>>),
              DomainContext(<<Physics, Astronomy>>, <<Engineering>>) }

\* what the classification agent may answer once its output parsed as JSON
AgentAnswers == {
    [primary_domain |-> Physics,
     secondary_domains |-> <<Astronomy, <<"b", "o", "g", "u", "s">>>>,
     domain_scores |-> <<[domain |-> Physics, score |-> Rat(9, 10)],
                         [domain |-> <<"b", "o", "g", "u", "s">>, score |-> Rat(1, 2)]>>,
     overall_relevance |-> Rat(3, 2)],
    [is_relevant |-> FALSE, overall_relevance |-> Rat(1, 10)],
    [primary_domain |-> <<"b", "o", "g", "u", "s">>, is_relevant |-> TRUE] }

SearchQuery == <<"c", "i", "v", "i", "l">>

InitSearch ==
    /\ pc = "start"
    /\ StageIdle
    /\ \E e \in SeqsUpTo(DOMAIN DomainBlockPool, MaxPapers) :
           paper_texts =
               IF e = <<>> THEN <<>>
               ELSE <<Join(<<>> \o [k \in DOMAIN e |-> DomainBlockPool[e[k]]],
                           NLNL)>>
    /\ combined_papers = <<>> /\ rededuped = <<>> /\ scenario = <<>>
    /\ RankIdle
    /\ rel_query = SearchQuery
    /\ min_relevance_score = Rat(4, 10)
    /\ max_papers = NoCap
    /\ papers_text = <<>> /\ papers = <<>> /\ scored_papers = <<>>
    /\ eval_path = <<>> /\ filter_results = <<>> /\ formatted_text = <<>>
    /\ hash_seed \in {0, 1}
    /\ domain_context \in Contexts
    /\ enable_domain_filtering \in BOOLEAN
    /\ enable_relevance_filtering \in BOOLEAN
    /\ domain_papers = <<>>
    /\ classifications = <<>>
    /\ class_path = <<>>
    /\ domain_results = NoResultList
    /\ domain_filtered_papers = <<>>

\* the condition of step 5
DomainFilterApplies ==
    /\ enable_domain_filtering
    /\ domain_context.kind = "context"
    /\ combined_papers # NoPapersFound

\* step 5 entered: classify_papers_by_domain parses the combined papers
BeginDomainFilter ==
    /\ pc = "deduped"
    /\ DomainFilterApplies
    /\ domain_papers' = _parse_papers_from_text(combined_papers)
    /\ pc' = "classify"
    /\ UNCHANGED <<stageVars, dedupVars, rankVars, relVars, hash_seed, domain_context,
                   enable_domain_filtering, enable_relevance_filtering,
                   classifications, class_path, domain_results,
                   domain_filtered_papers>>

\* step 5 not entered: domain_filtered_papers = combined_papers
SkipDomainFilter ==
    /\ pc = "deduped"
    /\ ~DomainFilterApplies
    /\ domain_filtered_papers' = combined_papers
    /\ pc' = "filtered"
    /\ UNCHANGED <<stageVars, dedupVars, rankVars, relVars, hash_seed, domain_context,
                   enable_domain_filtering, enable_relevance_filtering,
                   domain_papers, classifications, class_path, domain_results>>

\* classify_paper_domain of the next paper, the agent's outcome being given
ClassifyNext(outcome) ==
    LET paper == domain_papers[Len(classifications) + 1]
    IN classify_paper_domain(Get(paper, "paper_id", <<"unknown">>),
                             Get(paper, "title", <<>>),
                             Get(paper, "abstract", <<>>),
                             domain_context, outcome)

\* the agent's output parsed as JSON
ClassifyByAgent ==
    /\ pc = "classify"
    /\ Len(classifications) < Len(domain_papers)
    /\ \E ai_classification \in AgentAnswers :
           LET c == ClassifyNext([kind |-> "json", value |-> ai_classification])
           IN /\ classifications' = Append(classifications, c.result)
              /\ class_path' = Append(class_path, c.path)
    /\ UNCHANGED <<stageVars, pc, dedupVars, rankVars, relVars, hash_seed, domain_context,
                   enable_domain_filtering, enable_relevance_filtering,
                   domain_papers, domain_results, domain_filtered_papers>>

\* Runner.run or json.loads raised
ClassifyFailed ==
    /\ pc = "classify"
    /\ Len(classifications) < Len(domain_papers)
    /\ LET c == ClassifyNext([kind |-> "raise", value |-> <<>>])
       IN /\ classifications' = Append(classifications, c.result)
          /\ class_path' = Append(class_path, c.path)
    /\ UNCHANGED <<stageVars, pc, dedupVars, rankVars, relVars, hash_seed, domain_context,
                   enable_domain_filtering, enable_relevance_filtering,
                   domain_papers, domain_results, domain_filtered_papers>>

\* the loop of classify_papers_by_domain is over: the relevant results are
\* returned and the papers text is rebuilt from them
FinishDomainFilter ==
    /\ pc = "classify"
    /\ Len(classifications) = Len(domain_papers)
    /\ domain_results' = ResultList(RelevantToContext(classifications))
    /\ domain_filtered_papers' =
           DomainFilteredPapers(combined_papers, domain_results'.list)
    /\ pc' = "filtered"
    /\ UNCHANGED <<stageVars, dedupVars, rankVars, relVars, hash_seed, domain_context,
                   enable_domain_filtering, enable_relevance_filtering,
                   domain_papers, classifications, class_path>>

\* step 6 entered: filter_papers_by_relevance is called on the filtered text
CallRelevanceFilter ==
    /\ pc = "filtered"
    /\ enable_relevance_filtering
    /\ domain_filtered_papers # NoPapersFound
    /\ papers_text' = domain_filtered_papers
    /\ pc' = "handed"
    /\ UNCHANGED <<stageVars, dedupVars, rankVars, searchVars, rel_query,
                   min_relevance_score, max_papers, papers, scored_papers,
                   eval_path, filter_results, formatted_text>>

\* step 6 not entered: final_papers_text = domain_filtered_papers
SkipRelevanceFilter ==
    /\ pc = "filtered"
    /\ ~(enable_relevance_filtering /\ domain_filtered_papers # NoPapersFound)
    /\ pc' = "returned"
    /\ UNCHANGED <<stageVars, dedupVars, rankVars, relVars, searchVars>>

NextSearch ==
    \/ Dedupe
    \/ BeginDomainFilter \/ SkipDomainFilter
    \/ ClassifyByAgent \/ ClassifyFailed
    \/ FinishDomainFilter
    \/ CallRelevanceFilter \/ SkipRelevanceFilter
SpecSearch == InitSearch /\ [][NextSearch]_vars

(***************************************************************************)
(* Properties of the filter stages                                         *)
(***************************************************************************)
\* the block of combined_papers that classified paper k was parsed from
BlockOfPaper(k) == Split(combined_papers, NLNL)[domain_papers[k].paper_id.i + 1]

\* the block is part of the text: as it is, or with the domain info appended
HandedOver(block, text) ==
    \E b \in Range(Split(text, NLNL)) :
        b = block \/ StartsWith(b, block \o <<"\n", "[", "D", "O", "M", "A", "I", "N", ":", " ">>)

DomainFilterDone ==
    /\ pc = "handed"
    /\ DomainFilterApplies

\* C12: with a DomainContext and domain filtering enabled, the domain filter
\* has classified every paper before the relevance filter is called, and no
\* paper it rejected is part of the text handed to the relevance filter,
\* also when it rejected every paper.
C12_RejectedNeverHanded ==
    DomainFilterDone =>
        /\ Len(classifications) = Len(domain_papers)
        /\ \A k \in DOMAIN classifications :
               ~classifications[k].is_relevant_to_context =>
                   ~HandedOver(BlockOfPaper(k), papers_text)

\* a first line of the form 'Title (Year) by Authors'
WellFormedFirstLine(block) ==
    LET line == Split(block, NL)[1]
        y == YearGroupFrom(line, 1)
    IN /\ y > 1
       /\ Strip(SubSeq(line, 1, y - 1)) # <<>>
       /\ StartsWithAt(line, y + 6, <<" ">> \o ByTag)
       /\ Len(line) > y + 8

\* C13: every paper the domain filter admitted is part of the text handed to
\* the relevance filter, and for a well-formed block the id enhanced_search
\* recomputes equals the id the classifier was given for it.
C13_AdmittedProceed ==
    DomainFilterDone =>
        \A k \in DOMAIN classifications :
            /\ classifications[k].is_relevant_to_context =>
                   HandedOver(BlockOfPaper(k), papers_text)
            /\ WellFormedFirstLine(BlockOfPaper(k)) =>
                   RecomputedId(domain_papers[k].paper_id.i, BlockOfPaper(k))
                       = classifications[k].paper_id

\* paper k was classified by the except branch of classify_paper_domain
FellBack(k) == k \in DOMAIN class_path /\ class_path[k] # "agent"

\* what the rules alone say of paper k: the domains they detect, and whether
\* an exclusion pattern of one of the user's primary domains occurs in it
RuleDetected(k) ==
    detect_domains_from_text(domain_papers[k].title, domain_papers[k].abstract)
ExclusionMatched(k) ==
    LET text == Lower(domain_papers[k].title \o <<" ">>
                      \o domain_papers[k].abstract)
    IN \E t \in DOMAIN domain_context.primary_domains :
           LET patterns == ExclusionPatternsOf(domain_context.primary_domains[t])
           IN \E p \in DOMAIN patterns : Contains(text, Lower(patterns[p]))
IntersectsPrimary(k) ==
    Range(RuleDetected(k)) \cap Range(domain_context.primary_domains) # {}

\* C14: when the classification agent fails (the call raises, or its output
\* does not parse or names no valid domain), the result is the rule-based one
\* only, with one result per paper, and the paper is admitted if and only if
\* its rule-detected domains intersect the user's primary domains and no
\* exclusion pattern matched.
C14_FallbackRuleBased ==
    /\ Len(classifications) <= Len(domain_papers)
    /\ pc \in {"filtered", "handed", "returned"} /\ DomainFilterApplies =>
           Len(classifications) = Len(domain_papers)
    /\ \A k \in DOMAIN classifications :
           FellBack(k) =>
               LET c == classifications[k]
               IN /\ c.paper_id = domain_papers[k].paper_id
                  /\ c.detected_domains = RuleDetected(k)
                  /\ \A dm \in DOMAIN c.domain_scores :
                         RatEq(c.domain_scores[dm], Rat(1, 1))
                  /\ c.is_relevant_to_context
                         <=> (IntersectsPrimary(k) /\ ~ExclusionMatched(k))
                  /\ c.relevance_score =
                         IF c.is_relevant_to_context THEN Rat(7, 10)
                         ELSE Rat(1, 10)

\* two papers classified by the fallback after the agent raised: one admitted,
\* one whose domains intersect the primary domains but that an exclusion
\* pattern rejects
C14_Witness ==
    \E k, j \in DOMAIN classifications :
        /\ class_path[k] = "raise" /\ class_path[j] = "raise"
        /\ classifications[k].is_relevant_to_context
        /\ IntersectsPrimary(j) /\ ExclusionMatched(j)
        /\ ~classifications[j].is_relevant_to_context

(***************************************************************************)
(* Fan-out: EnhancedArxivSearch._execute_search_queries                    *)
(***************************************************************************)
MaxQueries == 3

\* the markers of arxiv._fetch: `return f"Error fetching from arXiv: ..."`
\* and `return f"arXiv API Error: {feed.feed.title}"`
ErrorPrefix == <<"E", "r", "r", "o", "r">>
ErrorFetching == <<"E", "r", "r", "o", "r", " ", "f", "e", "t", "c", "h", "i", "n", "g", " ", "f", "r", "o", "m", " ", "a", "r", "X", "i", "v", ":", " ", "t">>
ArxivApiError == <<"a", "r", "X", "i", "v", " ", "A", "P", "I", " ", "E", "r", "r", "o", "r", ":", " ", "e">>

\* queries as _build_search_queries delivers them: no query twice
QueryPool == << <<"a", "b">>, <<"c", "d">>, <<"e", "f">>, <<"g", "h">> >>
QueryLists ==
    {<<>> \o [k \in DOMAIN e |-> QueryPool[e[k]]] :
        e \in {s \in SeqsUpTo(DOMAIN QueryPool, MaxQueries) :
                  \A i, j \in DOMAIN s : i # j => s[i] # s[j]}}

\* what _fetch_arxiv_original(query, max_papers_per_search) can return
FetchReturnValues ==
    { NoPapersFound, ErrorFetching, ArxivApiError,
      WellFormedBlock(ScenarioTitle(1), Year2024),
      Join(<<WellFormedBlock(ScenarioTitle(1), Year2024),
             WellFormedBlock(ScenarioTitle(2), Year2025)>>, NLNL) }

Returned(value) == [raised |-> FALSE, value |-> value]
Raised == [raised |-> TRUE, value |-> <<>>]
SleepEvent == [op |-> "sleep", query |-> <<>>, outcome |-> Returned(<<>>)]
FetchEvent(sq, outcome) ==
    [op |-> "fetch", query |-> sq, outcome |-> outcome]

\* if i > 0: time.sleep(3)
DelayFromThird(i) == i > 1
DelayDue(i) == i > 0

\* result and result != "No papers found." and not result.startswith("Error")
Accepted(result) ==
    /\ result # <<>>
    /\ result # NoPapersFound
    /\ ~StartsWith(result, ErrorPrefix)

\* len([p for p in result.split('\n\n') if p.strip()])
PaperCount(result) ==
    Len(SelectSeq(Split(result, NLNL), LAMBDA p : Strip(p) # <<>>))

EmptyMetadata ==
    [queries_executed |-> <<>>, papers_per_query |-> <<>>,
     failed_queries |-> <<>>]
RecordSuccess(md, sq, result) ==
    [md EXCEPT !.queries_executed = Append(@, sq),
               !.papers_per_query =
                   [k \in DOMAIN @ \cup {sq} |->
                       IF k = sq THEN PaperCount(result) ELSE @[k]]]
RecordFailure(md, sq) ==
    [md EXCEPT !.failed_queries = Append(@, sq)]

InitFanOut ==
    /\ pc = "fanout"
    /\ DedupeIdle
    /\ RankIdle
    /\ RelIdle
    /\ SearchIdle
    /\ FetchIdle
    /\ ExpandIdle
    /\ LateIdle
    /\ search_queries \in QueryLists
    /\ fan_i = 0
    /\ slept = FALSE
    /\ metadata = EmptyMetadata
    /\ events = <<>>

CurrentQuery == search_queries[fan_i + 1]
AtFetch ==
    /\ pc = "fanout"
    /\ fan_i < Len(search_queries)
    /\ DelayDue(fan_i) => slept

\* time.sleep(3)
PolitenessDelay ==
    /\ pc = "fanout"
    /\ fan_i < Len(search_queries)
    /\ DelayDue(fan_i)
    /\ ~slept
    /\ slept' = TRUE
    /\ events' = Append(events, SleepEvent)
    /\ UNCHANGED <<pc, search_queries, fan_i, metadata, dedupVars, rankVars,
                   relVars, searchVars, fetchVars,
                   expandVars, lateVars>>

\* result = _fetch_arxiv_original(...) returned, and the if/else on it
FetchReturns ==
    /\ AtFetch
    /\ \E result \in FetchReturnValues :
           /\ events' = Append(events, FetchEvent(CurrentQuery, Returned(result)))
           /\ IF Accepted(result)
              THEN /\ paper_texts' = Append(paper_texts, result)
                   /\ metadata' = RecordSuccess(metadata, CurrentQuery, result)
              ELSE /\ paper_texts' = paper_texts
                   /\ metadata' = RecordFailure(metadata, CurrentQuery)
    /\ fan_i' = fan_i + 1
    /\ slept' = FALSE
    /\ UNCHANGED <<pc, search_queries, combined_papers, rededuped, scenario,
                   rankVars, relVars, searchVars, fetchVars,
                   expandVars, lateVars>>

\* the fetcher raised: except Exception ... continue
FetchRaises ==
    /\ AtFetch
    /\ events' = Append(events, FetchEvent(CurrentQuery, Raised))
    /\ metadata' = RecordFailure(metadata, CurrentQuery)
    /\ fan_i' = fan_i + 1
    /\ slept' = FALSE
    /\ UNCHANGED <<pc, search_queries, dedupVars, rankVars, relVars,
                   searchVars, fetchVars,
                   expandVars, lateVars>>

\* return paper_texts, metadata
FanOutReturns ==
    /\ pc = "fanout"
    /\ fan_i = Len(search_queries)
    /\ pc' = "fanned_out"
    /\ UNCHANGED <<dedupVars, rankVars, relVars, searchVars, stageVars>>

NextFanOut == PolitenessDelay \/ FetchReturns \/ FetchRaises \/ FanOutReturns
SpecFanOut == InitFanOut /\ [][NextFanOut]_vars


(***************************************************************************)
(* Properties of the fan-out                                               *)
(***************************************************************************)
FetchCalls == SelectSeq(events, LAMBDA ev : ev.op = "fetch")
CalledQueries == <<>> \o [k \in DOMAIN FetchCalls |-> FetchCalls[k].query]

\* the no-results marker and the error markers the arXiv fetcher returns
IsFailureMarker(value) ==
    \/ value = NoPapersFound
    \/ StartsWith(value, ErrorPrefix)
    \/ StartsWith(value, SubSeq(ArxivApiError, 1, 16))
FailedCall(ev) == ev.outcome.raised \/ IsFailureMarker(ev.outcome.value)
BlobsOfSuccessfulCalls ==
    LET ok == SelectSeq(FetchCalls, LAMBDA ev : ~FailedCall(ev))
    IN <<>> \o [k \in DOMAIN ok |-> ok[k].outcome.value]

\* C15: the fetcher is invoked once per query in list order whatever the
\* earlier calls returned or raised, the fan-out returns only after the
\* whole list, and every query whose fetch raised or returned a no-results
\* or error marker is in failed_queries, is not in queries_executed and
\* contributes no blob to paper_texts.
C15_FailuresRecorded ==
    pc \in {"fanout", "fanned_out"} =>
        /\ CalledQueries = SubSeq(search_queries, 1, fan_i)
        /\ pc = "fanned_out" => CalledQueries = search_queries
        /\ \A k \in DOMAIN FetchCalls :
               FailedCall(FetchCalls[k]) =>
                   /\ InSeq(FetchCalls[k].query, metadata.failed_queries)
                   /\ ~InSeq(FetchCalls[k].query, metadata.queries_executed)
        /\ paper_texts = BlobsOfSuccessfulCalls

\* C16: every fetcher call after the first is immediately preceded by the
\* politeness delay, also when the previous call failed or raised.
C16_DelayBetweenCalls ==
    \A k \in DOMAIN events :
        (k > 1 /\ events[k].op = "fetch") => events[k - 1].op = "sleep"

\* C16: a call that raised and a call that returned an error marker are
\* each followed by the delay and then by the next call.
C16_Witness ==
    /\ pc = "fanned_out"
    /\ Len(events) = 5
    /\ events[1].op = "fetch" /\ events[1].outcome.raised
    /\ events[2].op = "sleep"
    /\ events[3].op = "fetch" /\ events[3].outcome.value = ErrorFetching
    /\ events[4].op = "sleep"
    /\ events[5].op = "fetch"


(***************************************************************************)
(* arXiv fetcher: arxiv._fetch                                             *)
(***************************************************************************)
MaxResults == 2
max_pages == 5

\* the argument q with what _build_fielded_query_from_nl(q) returns for it
\* (<<>> for None)
FetchQuery(text, fielded) == [text |-> text, fielded |-> fielded]
FetchQueries ==
    { FetchQuery(<<"a", "b">>, <<>>),
      FetchQuery(<<"a", "b", "c">>, <<"(", "(", "t", "i", ":", "a", "b", "c", " ", "O", "R", " ", "a", "b", "s", ":", "a", "b", "c", ")", ")">>),
      FetchQuery(<<"t", "i", ":", "x">>, <<>>),
      FetchQuery(<<"h", "t", "t", "p", ":", "/", "/", "u">>, <<"(", "(", "t", "i", ":", "h", "t", "t", "p", " ", "O", "R", " ", "a", "b", "s", ":", "h", "t", "t", "p", ")", ")">>) }

FieldSpecifiers == << <<"t", "i", ":">>, <<"a", "u", ":">>, <<"a", "b", "s", ":">>, <<"c", "a", "t", ":">>, <<"a", "l", "l", ":">> >>
_build_search_query(fq) ==
    IF \E k \in DOMAIN FieldSpecifiers :
           Contains(Lower(fq.text), FieldSpecifiers[k])
    THEN fq.text
    ELSE IF fq.fielded # <<>> THEN fq.fielded
    ELSE <<"a", "l", "l", ":">> \o fq.text

\* attempts: primary (possibly fielded), then the broad all: form
Attempts(fq) ==
    IF ~StartsWith(fq.text, <<"h", "t", "t", "p">>)
    THEN LET primary == _build_search_query(fq)
             fallback == <<"a", "l", "l", ":">> \o fq.text
         IN IF fallback # primary THEN <<primary, fallback>> ELSE <<primary>>
    ELSE <<fq.text>>

Min(a, b) == IF a <= b THEN a ELSE b
PageSize(wanted) == Max(10, Min(50, wanted * 2))

\* if start == 0 and attempt_index == 0 and len(attempts) > 1
SwitchOnAnyPage(at, idx, n) == idx = 0 /\ n > 1
SwitchDue(at, idx, n) == at = 0 /\ idx = 0 /\ n > 1

\* what one parsed feed holds: an error title, or `entries` entries of which
\* `kept` pass the year filter and format without an exception
Feed(error, entries, kept) ==
    [error |-> error, entries |-> entries, kept |-> kept]
Feeds ==
    { Feed(TRUE, 0, 0), Feed(FALSE, 0, 0), Feed(FALSE, 1, 0),
      Feed(FALSE, 1, 1), Feed(FALSE, 2, 2) }

\* the for loop over entries: append kept parts, stop at max_results
Collect(parts, kept, wanted) ==
    LET room == IF Len(parts) >= wanted THEN 1 ELSE wanted - Len(parts)
        n == Min(kept, room)
    IN parts \o [j \in 1..n |->
                    WellFormedBlock(ScenarioTitle(Len(parts) + j), Year2024)]

\* the statements after the while loop
ReturnValue(parts, wanted) ==
    IF parts = <<>> THEN NoPapersFound
    ELSE Join(SubSeq(parts, 1, Min(Len(parts), wanted)), NLNL)

SleepRequest(seconds) ==
    [op |-> "sleep", seconds |-> seconds, form |-> 0, at |-> 0, attempt |-> 0,
     entries |-> 0 - 1]
GetRequest(entries) ==
    [op |-> "get", seconds |-> 0, form |-> attempt_index, at |-> start,
     attempt |-> http_attempt, entries |-> entries]

InitFetch ==
    /\ pc = "while"
    /\ DedupeIdle
    /\ RankIdle
    /\ RelIdle
    /\ SearchIdle
    /\ FanIdle
    /\ ExpandIdle
    /\ LateIdle
    /\ fetch_q \in FetchQueries
    /\ max_results \in 1..MaxResults
    /\ attempt_index = 0
    /\ start = 0
    /\ pages_tried = 0
    /\ collected_parts = <<>>
    /\ time_bound = FALSE
    /\ http_attempt = 0
    /\ page_requests = <<>>
    /\ fetch_result = <<>>

\* while len(collected_parts) < max_results and pages_tried < max_pages
\* (last_batch_empty is only set immediately before `break`)
LoopCondition == Len(collected_parts) < max_results /\ pages_tried < max_pages

otherVars == <<dedupVars, rankVars, relVars, searchVars, fanVars, expandVars, lateVars>>

\* the loop body up to the retry loop; its time.sleep(3) needs the function's
\* local name `time`, which only the `import time, random` of a retry binds
EnterPage ==
    /\ pc = "while"
    /\ LoopCondition
    /\ pages_tried > 0 => time_bound
    /\ page_requests' = IF pages_tried > 0
                        THEN Append(page_requests, SleepRequest(3))
                        ELSE page_requests
    /\ http_attempt' = 0
    /\ pc' = "get"
    /\ UNCHANGED <<fetch_q, max_results, attempt_index, start, pages_tried,
                   collected_parts, time_bound, fetch_result, otherVars>>

\* time.sleep(3) with `time` unbound: UnboundLocalError, caught by
\* `except Exception as e: return f"Error fetching from arXiv: ..."`
SleepUnbound ==
    /\ pc = "while"
    /\ LoopCondition
    /\ pages_tried > 0
    /\ ~time_bound
    /\ fetch_result' = ErrorFetching
    /\ pc' = "returned"
    /\ UNCHANGED <<fetch_q, max_results, attempt_index, start, pages_tried,
                   collected_parts, time_bound, http_attempt, page_requests,
                   otherVars>>

\* the loop condition is false: the statements after the loop
LoopExit ==
    /\ pc = "while"
    /\ ~LoopCondition
    /\ fetch_result' = ReturnValue(collected_parts, max_results)
    /\ pc' = "returned"
    /\ UNCHANGED <<fetch_q, max_results, attempt_index, start, pages_tried,
                   collected_parts, time_bound, http_attempt, page_requests,
                   otherVars>>

\* httpx.get or raise_for_status raised
HttpFails ==
    /\ pc = "get"
    /\ IF http_attempt = 2
       THEN /\ page_requests' = Append(page_requests, GetRequest(0 - 1))
            /\ fetch_result' = ErrorFetching
            /\ pc' = "returned"
            /\ UNCHANGED <<time_bound, http_attempt>>
       ELSE /\ page_requests' =
                Append(page_requests, GetRequest(0 - 1))
                    \o <<SleepRequest(2 ^ http_attempt)>>
            /\ time_bound' = TRUE
            /\ http_attempt' = http_attempt + 1
            /\ UNCHANGED <<fetch_result, pc>>
    /\ UNCHANGED <<fetch_q, max_results, attempt_index, start, pages_tried,
                   collected_parts, otherVars>>

\* the request succeeded; feedparser.parse and the rest of the loop body
HttpSucceeds ==
    /\ pc = "get"
    /\ \E feed \in Feeds :
        /\ page_requests' = Append(page_requests,
               GetRequest(IF feed.error THEN 0 - 1 ELSE feed.entries))
        /\ IF feed.error
           THEN /\ fetch_result' = ArxivApiError
                /\ pc' = "returned"
                /\ UNCHANGED <<attempt_index, start, pages_tried,
                               collected_parts>>
           ELSE IF feed.entries = 0
           THEN IF SwitchDue(start, attempt_index, Len(Attempts(fetch_q)))
                THEN /\ attempt_index' = 1
                     /\ pages_tried' = 0
                     /\ pc' = "while"
                     /\ UNCHANGED <<start, collected_parts, fetch_result>>
                ELSE /\ fetch_result' =
                            ReturnValue(collected_parts, max_results)
                     /\ pc' = "returned"
                     /\ UNCHANGED <<attempt_index, start, pages_tried,
                                    collected_parts>>
           ELSE /\ collected_parts' =
                       Collect(collected_parts, feed.kept, max_results)
                /\ pages_tried' = pages_tried + 1
                /\ start' = start + PageSize(max_results)
                /\ pc' = "while"
                /\ UNCHANGED <<attempt_index, fetch_result>>
    /\ UNCHANGED <<fetch_q, max_results, time_bound, http_attempt, otherVars>>

NextFetch ==
    EnterPage \/ SleepUnbound \/ LoopExit \/ HttpFails \/ HttpSucceeds
SpecFetch == InitFetch /\ [][NextFetch]_vars


(***************************************************************************)
(* Properties of the arXiv fetcher                                         *)
(***************************************************************************)
\* the first HTTP request of every page requested so far
Pages ==
    SelectSeq(page_requests, LAMBDA r : r.op = "get" /\ r.attempt = 0)
\* the last HTTP request of page k (the one whose feed was parsed, if any)
Answers == SelectSeq(page_requests, LAMBDA r : r.op = "get" /\ r.entries >= 0)
HasAlternate == Len(Attempts(fetch_q)) > 1
EmptyPrimaryFirstPage(r) == r.form = 0 /\ r.at = 0 /\ r.entries = 0

\* C17: within one arXiv fetch, when the first page of the primary query
\* form comes back empty and an alternate form exists, the fetch switches to
\* the alternate form and goes on; the switch happens at most once and only
\* then (every later page uses the alternate form from offset 0 on), and the
\* fetch requests at most one empty primary page plus max_pages pages.
C17_SwitchOnceAndBounded ==
    pc \in {"while", "get", "returned"} =>
        /\ Len(Pages) <= 1 + max_pages
        /\ \A k \in DOMAIN Answers :
               (HasAlternate /\ EmptyPrimaryFirstPage(Answers[k])) =>
                   /\ k = 1
                   /\ IF Len(Pages) > 1
                      THEN Pages[2].form = 1 /\ Pages[2].at = 0
                      ELSE pc \in {"while", "get"} /\ attempt_index = 1
        /\ \A k \in DOMAIN Pages :
               Pages[k].form = 1 =>
                   /\ k > 1
                   /\ HasAlternate
                   /\ EmptyPrimaryFirstPage(Answers[1])
                   /\ \A j \in 2..k : Pages[j].form = 1
                   /\ Len(Pages) <= 1 + max_pages

\* C17: the primary form's first page was empty, the fetch switched, and
\* ran max_pages pages of the alternate form before it returned.
C17_Witness ==
    /\ pc = "returned"
    /\ Len(Pages) = 1 + max_pages
    /\ EmptyPrimaryFirstPage(Answers[1])
    /\ \A k \in 2..Len(Pages) : Pages[k].form = 1
    /\ fetch_result = NoPapersFound

\* Title (Year) by Authors\nAbstract: ...\nURL: ...[\nPDF: ...]
IsPaperBlock(block) ==
    LET lines == Split(block, NL)
    IN /\ Len(lines) \in {3, 4}
       /\ Contains(lines[1], <<" ", "(">>)
       /\ Contains(lines[1], <<")", " ", "b", "y", " ">>)
       /\ StartsWith(lines[2], AbstractTag)
       /\ StartsWith(lines[3], UrlTag)
       /\ Len(lines) = 4 => StartsWith(lines[4], PdfTag)
IsPaperBlocks(text) ==
    LET blocks == Split(text, NLNL)
    IN text # <<>> /\ \A k \in DOMAIN blocks : IsPaperBlock(blocks[k])

\* C18: the arXiv fetcher returns "No papers found.", or a string beginning
\* "Error", or blank-line-separated paper blocks, and no other marker.
C18_ReturnContract ==
    pc = "returned" =>
        \/ fetch_result = NoPapersFound
        \/ StartsWith(fetch_result, ErrorPrefix)
        \/ IsPaperBlocks(fetch_result)


(***************************************************************************)
(* Query builder: EnhancedArxivSearch._build_search_queries                *)
(***************************************************************************)
MaxSearches == 3

ExpandedTerminology(primary, adjacent, broader, narrower, related, phrasings) ==
    [primary_terms |-> primary, adjacent_terms |-> adjacent,
     broader_terms |-> broader, narrower_terms |-> narrower,
     related_concepts |-> related, alternative_phrasings |-> phrasings]

Space == <<" ">>
SelectLong(terms) == SelectSeq(terms, LAMBDA t : Len(t) > 3)

\* the list `queries` before duplicates are removed
CandidateQueries(orig, et) ==
    LET primary_query == Join(FirstN(et.primary_terms, 4), Space)
        adjacent == FirstN(et.adjacent_terms, 3)
        narrower == FirstN(et.narrower_terms, 2)
        WithFirstPrimary(t) == et.primary_terms[1] \o Space \o t
    IN <<orig>>
       \o (IF et.primary_terms # <<>> /\ primary_query # orig
           THEN <<primary_query>> ELSE <<>>)
       \o (IF et.primary_terms # <<>>
           THEN <<>> \o [k \in DOMAIN adjacent |-> WithFirstPrimary(adjacent[k])]
           ELSE adjacent)
       \o SelectLong(FirstN(et.alternative_phrasings, 2))
       \o (IF et.primary_terms # <<>>
           THEN <<>> \o [k \in DOMAIN narrower |-> WithFirstPrimary(narrower[k])]
           ELSE <<>>)
       \o SelectLong(FirstN(et.related_concepts, 2))

\* q_lower = q.lower().strip()
DedupeKeyExact(sq) == Strip(sq)
DedupeKey(sq) == Strip(Lower(sq))

\* the loop that fills unique_queries
RECURSIVE UniqueQueries(_, _, _)
UniqueQueries(queries, i, seen) ==
    IF i > Len(queries) THEN <<>>
    ELSE LET q_lower == DedupeKey(queries[i])
         IN IF q_lower # <<>> /\ q_lower \notin seen
            THEN <<Strip(queries[i])>>
                     \o UniqueQueries(queries, i + 1, seen \cup {q_lower})
            ELSE UniqueQueries(queries, i + 1, seen)

_build_search_queries(orig, et, cap) ==
    FirstN(UniqueQueries(CandidateQueries(orig, et), 1, {}), cap)

BuilderQueries == { <<"a", "b">>, <<" ", "a", "b">>, <<>>, <<"A", "b", " ", "c", "d">> }
BuilderTerminologies ==
    { ExpandedTerminology(p, a, <<>>, n, r, f) :
        p \in { <<>>, << <<"a", "b">> >>, << <<"A", "b">>, <<"c", "d">> >> },
        a \in { <<>>, << <<"c", "d">> >>, << <<"c", "d">>, <<"C", "D", " ">> >> },
        n \in { <<>>, << <<"c", "d">> >> },
        r \in { <<>>, << <<"A", "B", " ", "C", "D">>, <<" ", " ", " ", " ">> >> },
        f \in { <<>>, << <<"a", "b", " ", "c", "d">>, <<"a", "b", "c">> >> } }

InitBuild ==
    /\ pc = "expanded"
    /\ DedupeIdle
    /\ RankIdle
    /\ RelIdle
    /\ SearchIdle
    /\ FanIdle
    /\ FetchIdle
    /\ LateIdle
    /\ original_query \in BuilderQueries
    /\ expanded_terms \in BuilderTerminologies
    /\ max_searches \in 1..MaxSearches
    /\ use_ai = FALSE /\ max_terms_per_category = 0 /\ key_concepts = <<>>
    /\ ai_terms = <<>>

\* search_queries = self._build_search_queries(query, expanded_terms)
BuildSearchQueries ==
    /\ pc = "expanded"
    /\ search_queries' =
           _build_search_queries(original_query, expanded_terms, max_searches)
    /\ pc' = "built"
    /\ UNCHANGED <<fan_i, slept, metadata, events, dedupVars, rankVars,
                   relVars, searchVars, fetchVars, expandVars, lateVars>>

NextBuild == BuildSearchQueries
SpecBuild == InitBuild /\ [][NextBuild]_vars

\* C19: the list built has no two entries that are equal ignoring case and
\* surrounding whitespace, no empty entry and at most max_searches entries;
\* when the original query is non-blank, the first entry is the original
\* query without its surrounding whitespace.
C19_BuiltQueries ==
    pc = "built" =>
        /\ \A i, j \in DOMAIN search_queries :
               i # j => Strip(Lower(search_queries[i]))
                            # Strip(Lower(search_queries[j]))
        /\ \A i \in DOMAIN search_queries : search_queries[i] # <<>>
        /\ Len(search_queries) <= max_searches
        /\ Strip(original_query) # <<>> =>
               /\ search_queries # <<>>
               /\ search_queries[1] = Strip(original_query)

\* C19 as stated: the first entry is the original query itself.
C19_AsClaimed ==
    (pc = "built" /\ Strip(original_query) # <<>>) =>
        /\ search_queries # <<>>
        /\ search_queries[1] = original_query

\* C19: a padded original query, candidates that differ only in case or
\* padding, a blank candidate, and more distinct candidates than the cap.
C19_Witness ==
    LET candidates == CandidateQueries(original_query, expanded_terms)
    IN /\ pc = "built"
       /\ original_query # Strip(original_query)
       /\ search_queries[1] = Strip(original_query)
       /\ Len(search_queries) = max_searches
       /\ \E i, j \in DOMAIN candidates :
              i < j /\ candidates[i] # candidates[j]
                    /\ Strip(Lower(candidates[i])) = Strip(Lower(candidates[j]))
       /\ \E i \in DOMAIN candidates :
              candidates[i] # <<>> /\ Strip(candidates[i]) = <<>>
       /\ Cardinality({Strip(Lower(candidates[i])) : i \in DOMAIN candidates}
                          \ {<<>>}) > max_searches


(***************************************************************************)
(* Terminology expansion: terminology_expander.expand_query_terminology    *)
(***************************************************************************)
MaxTerms == 2

\* excerpts of the tables of TerminologyExpander: the entries that the
\* queries below can hit
DetectPatterns ==
    << [domain |-> Physics,
        patterns |-> << <<"p", "h", "y", "s", "i", "c", "s">>, <<"q", "u", "a", "n", "t", "u", "m">>, <<"p", "a", "r", "t", "i", "c", "l", "e">>,
                        <<"c", "o", "n", "d", "e", "n", "s", "e", "d", " ", "m", "a", "t", "t", "e", "r">>, <<"s", "p", "e", "c", "t", "r", "o", "s", "c", "o", "p", "y">> >>] >>
DomainMappings ==
    << [domain |-> Physics,
        broader |-> << <<"n", "a", "t", "u", "r", "a", "l", " ", "s", "c", "i", "e", "n", "c", "e", "s">>, <<"p", "h", "y", "s", "i", "c", "a", "l", " ", "s", "c", "i", "e", "n", "c", "e", "s">> >>,
        narrower |-> << <<"q", "u", "a", "n", "t", "u", "m", " ", "p", "h", "y", "s", "i", "c", "s">>, <<"c", "o", "n", "d", "e", "n", "s", "e", "d", " ", "m", "a", "t", "t", "e", "r">>,
                        <<"p", "a", "r", "t", "i", "c", "l", "e", " ", "p", "h", "y", "s", "i", "c", "s">>, <<"a", "s", "t", "r", "o", "p", "h", "y", "s", "i", "c", "s">> >>,
        adjacent |-> << <<"c", "h", "e", "m", "i", "s", "t", "r", "y">>, <<"m", "a", "t", "e", "r", "i", "a", "l", "s", " ", "s", "c", "i", "e", "n", "c", "e">>,
                        <<"e", "n", "g", "i", "n", "e", "e", "r", "i", "n", "g">>, <<"m", "a", "t", "h", "e", "m", "a", "t", "i", "c", "s">> >>,
        methods |-> << <<"s", "p", "e", "c", "t", "r", "o", "s", "c", "o", "p", "y">>, <<"m", "i", "c", "r", "o", "s", "c", "o", "p", "y">>, <<"s", "i", "m", "u", "l", "a", "t", "i", "o", "n">>,
                       <<"t", "h", "e", "o", "r", "e", "t", "i", "c", "a", "l", " ", "m", "o", "d", "e", "l", "i", "n", "g">> >>] >>
SynonymMappings ==
    << [term |-> <<"r", "e", "g", "u", "l", "a", "r", "i", "z", "a", "t", "i", "o", "n">>,
        synonyms |-> << <<"d", "r", "o", "p", "o", "u", "t">>, <<"b", "a", "t", "c", "h", " ", "n", "o", "r", "m", "a", "l", "i", "z", "a", "t", "i", "o", "n">>,
                        <<"w", "e", "i", "g", "h", "t", " ", "d", "e", "c", "a", "y">> >>] >>
StopWords == { <<"t", "h", "e">>, <<"a", "n", "d">>, <<"f", "o", "r">>, <<"n", "e", "w">>, <<"u", "s", "e">> }
MultiWordTerms == << <<"m", "a", "c", "h", "i", "n", "e", " ", "l", "e", "a", "r", "n", "i", "n", "g">>, <<"d", "e", "e", "p", " ", "l", "e", "a", "r", "n", "i", "n", "g">> >>
General == <<"g", "e", "n", "e", "r", "a", "l">>

AnyContains(text, patterns) ==
    \E k \in DOMAIN patterns : Contains(text, patterns[k])
MappingOf(domain) ==
    SelectSeq(DomainMappings, LAMBDA m : m.domain = domain)

\* _detect_domain: the first domain with the highest number of pattern hits
_detect_domain(text) ==
    LET query_lower == Lower(text)
        Score(k) == Cardinality({j \in DOMAIN DetectPatterns[k].patterns :
                        Contains(query_lower,
                                 Lower(DetectPatterns[k].patterns[j]))})
        hit == {k \in DOMAIN DetectPatterns : Score(k) > 0}
    IN IF hit = {} THEN General
       ELSE DetectPatterns[CHOOSE k \in hit :
                \A j \in hit : Score(k) > Score(j)
                                     \/ (Score(k) = Score(j) /\ k <= j)].domain

\* re.findall(r'"([^"]+)"', query) and re.sub(r'"[^"]+"', ' ', query)
Quote == <<"\"">>
RECURSIVE QuotedFrom(_, _)
QuotedFrom(s, i) ==
    IF i > Len(s) THEN [phrases |-> <<>>, rest |-> <<>>]
    ELSE LET close == IF s[i] = Quote[1] THEN FindFrom(s, Quote, i + 1) ELSE 0
         IN IF close > i + 1
            THEN LET more == QuotedFrom(s, close + 1)
                 IN [phrases |-> <<SubSeq(s, i + 1, close - 1)>> \o more.phrases,
                     rest |-> Space \o more.rest]
            ELSE LET more == QuotedFrom(s, i + 1)
                 IN [phrases |-> more.phrases, rest |-> <<s[i]>> \o more.rest]

\* re.findall(r'\b[a-zA-Z][a-zA-Z0-9\-_]*\b', text) on lower-case text
IsTokenChar(c) == IsWordChar(c) \/ c = "-"
RECURSIVE RunEnd(_, _)
RunEnd(s, i) ==
    IF i < Len(s) /\ IsTokenChar(s[i + 1]) THEN RunEnd(s, i + 1) ELSE i
RECURSIVE LastWordChar(_, _)
LastWordChar(s, i) == IF IsWordChar(s[i]) THEN i ELSE LastWordChar(s, i - 1)
RECURSIVE ConceptTokensFrom(_, _)
ConceptTokensFrom(s, i) ==
    IF i > Len(s) THEN <<>>
    ELSE IF IsAlpha(s[i]) /\ (i = 1 \/ ~IsWordChar(s[i - 1]))
    THEN LET e == LastWordChar(s, RunEnd(s, i))
         IN <<SubSeq(s, i, e)>> \o ConceptTokensFrom(s, e + 1)
    ELSE ConceptTokensFrom(s, i + 1)

\* the list `concepts` of _extract_key_concepts, before list(set(concepts))
Concepts(text) ==
    LET quoted == QuotedFrom(text, 1)
        lowered == Lower(quoted.rest)
        filtered_tokens ==
            SelectSeq(ConceptTokensFrom(lowered, 1),
                      LAMBDA t : t \notin StopWords /\ Len(t) > 2)
    IN quoted.phrases
       \o SelectSeq(MultiWordTerms, LAMBDA t : Contains(lowered, t))
       \o FirstN(filtered_tokens, 10)

\* list(set(concepts)): the distinct concepts in the order of the set's
\* iteration, which depends on the string hashes of the process
_extract_key_concepts(text) ==
    LET distinct == Range(Concepts(text))
    IN {<<>> \o order : order \in
           {f \in [1..Cardinality(distinct) -> distinct] : Range(f) = distinct}}

\* the concatenation of the lists F yields for the items, in order
FlatMap(items, F(_)) == Flatten([k \in DOMAIN items |-> F(items[k])])

LowerAll(terms) == {Lower(terms[k]) : k \in DOMAIN terms}

\* dedupe_and_limit of expand_terminology
RECURSIVE DedupeAndLimitFrom(_, _, _, _, _)
DedupeAndLimitFrom(terms, i, seen, primary_lower, limit) ==
    IF i > Len(terms) THEN <<>>
    ELSE IF Lower(terms[i]) \notin seen /\ Lower(terms[i]) \notin primary_lower
    THEN IF limit <= 1 THEN <<terms[i]>>
         ELSE <<terms[i]>>
                  \o DedupeAndLimitFrom(terms, i + 1,
                         seen \cup {Lower(terms[i])}, primary_lower, limit - 1)
    ELSE DedupeAndLimitFrom(terms, i + 1, seen, primary_lower, limit)
dedupe_and_limit(terms, primary_terms, limit) ==
    DedupeAndLimitFrom(terms, 1, {}, LowerAll(primary_terms), limit)

EndsWithS(c) == c # <<>> /\ c[Len(c)] = "s"
Variation(c) ==
    IF EndsWithS(c) /\ Len(c) > 3 THEN <<SubSeq(c, 1, Len(c) - 1)>>
    ELSE <<c \o <<"s">> >>
Affixed(c) ==
    IF Len(c) > 4
    THEN << c \o <<" ", "b", "a", "s", "e", "d">>, c \o <<" ", "a", "p", "p", "r", "o", "a", "c", "h">>, c \o <<" ", "m", "e", "t", "h", "o", "d">>,
            <<"n", "o", "v", "e", "l", " ">> \o c, <<"i", "m", "p", "r", "o", "v", "e", "d", " ">> \o c >>
    ELSE <<>>
SynonymHit(c, entry) ==
    \/ Contains(Lower(c), entry.term)
    \/ \E k \in DOMAIN entry.synonyms :
           Contains(Lower(c), Lower(entry.synonyms[k]))

\* TerminologyExpander.expand_terminology, given the key concepts extracted
expand_terminology(text, concepts, limit) ==
    LET mapping == MappingOf(_detect_domain(text))
        MethodHit(c) == mapping # <<>> /\ AnyContains(Lower(c), mapping[1].methods)
        Methods(c) == IF MethodHit(c) THEN mapping[1].methods ELSE <<>>
        Narrower(c) == IF MethodHit(c) THEN mapping[1].narrower ELSE <<>>
        Synonyms(c) ==
            FlatMap(SynonymMappings,
                    LAMBDA e : IF SynonymHit(c, e) THEN e.synonyms ELSE <<>>)
        SynonymTerms(c) ==
            FlatMap(SynonymMappings,
                    LAMBDA e : IF SynonymHit(c, e) THEN <<e.term>> ELSE <<>>)
        adjacent_terms ==
            IF mapping = <<>> THEN <<>>
            ELSE FlatMap(concepts, Methods) \o mapping[1].adjacent
        broader_terms == IF mapping = <<>> THEN <<>> ELSE mapping[1].broader
        narrower_terms ==
            IF mapping = <<>> THEN <<>>
            ELSE FlatMap(concepts, Narrower) \o mapping[1].narrower
        related_concepts ==
            FlatMap(concepts, SynonymTerms) \o FlatMap(concepts, Affixed)
        alternative_phrasings ==
            FlatMap(concepts, Synonyms) \o FlatMap(concepts, Variation)
    IN ExpandedTerminology(
           FirstN(concepts, limit),
           dedupe_and_limit(adjacent_terms, concepts, limit),
           dedupe_and_limit(broader_terms, concepts, limit \div 2),
           dedupe_and_limit(narrower_terms, concepts, limit),
           dedupe_and_limit(related_concepts, concepts, limit),
           dedupe_and_limit(alternative_phrasings, concepts, limit))

\* expand_query_terminology: the `if domain_context:` block
WithDomainContext(et, ctx) ==
    LET DomainKeywords(domain) ==
            IF MappingOf(domain) = <<>> THEN <<>>
            ELSE FirstN(MappingOf(domain)[1].methods, 3)
        domain_keywords == FlatMap(ctx.primary_domains, DomainKeywords)
    IN IF ctx.kind = "none" THEN et
       ELSE [et EXCEPT
                !.related_concepts = @ \o FirstN(domain_keywords, 10),
                !.primary_terms = @ \o ctx.focus_keywords]

\* dedupe_list of expand_query_terminology
RECURSIVE DedupeFrom(_, _, _)
DedupeFrom(items, i, seen) ==
    IF i > Len(items) THEN <<>>
    ELSE IF Lower(items[i]) \notin seen
    THEN <<items[i]>> \o DedupeFrom(items, i + 1, seen \cup {Lower(items[i])})
    ELSE DedupeFrom(items, i + 1, seen)
DedupeListUncapped(items, limit) == DedupeFrom(items, 1, {})
dedupe_list(items, limit) == FirstN(DedupeFrom(items, 1, {}), limit)

\* the dict returned by expand_terminology_ai (json.loads of the output;
\* a missing key reads as [])
AiTerms(adjacent, broader, narrower, phrasings, methods, cross) ==
    [adjacent_terms |-> adjacent, broader_terms |-> broader,
     narrower_terms |-> narrower, alternative_phrasings |-> phrasings,
     related_methods |-> methods, cross_disciplinary |-> cross]
\* the dict of its own except branch
EmptyAiTerms == AiTerms(<<>>, <<>>, <<>>, <<>>, <<>>, <<>>)

\* expand_query_terminology: the merge of the AI terms inside the try block
WithAiTerms(et, ai, limit) ==
    [et EXCEPT
        !.adjacent_terms = dedupe_list(@ \o ai.adjacent_terms, limit),
        !.broader_terms = dedupe_list(@ \o ai.broader_terms, limit),
        !.narrower_terms = dedupe_list(@ \o ai.narrower_terms, limit),
        !.alternative_phrasings =
            dedupe_list(@ \o ai.alternative_phrasings, limit),
        !.related_concepts =
            dedupe_list(@ \o ai.related_methods \o ai.cross_disciplinary,
                        limit)]


ExpandQueries ==
    { <<"q", "u", "a", "n", "t", "u", "m", " ", "d", "o", "t", "s">>, <<"a", "b", "c", "d", "e">>, <<"\"", "A", "b", "c", "\"", " ", "a", "b", "c">>, <<"d", "r", "o", "p", "o", "u", "t">>,
      <<"t", "h", "e", " ", "n", "e", "w">> }
ExpandContexts ==
    { NoContext,
      DomainContext(<<Engineering>>, <<>>),
      DomainContext(<<Physics>>, <<>>),
      [DomainContext(<<Physics>>, <<>>)
          EXCEPT !.focus_keywords = << <<"Q", "u", "a", "n", "t", "u", "m">> >>] }
\* term lists the expansion agent may return
AiAnswers ==
    { EmptyAiTerms,
      AiTerms(<< <<"x", "1">>, <<"X", "1">> >>, <<>>, << <<"n", "1">> >>, << <<"q", "u", "a", "n", "t", "u", "m">> >>,
              << <<"m", "1">>, <<"m", "2">> >>, << <<"M", "1">> >>),
      AiTerms(<< <<"x", "1">>, <<"x", "2">>, <<"x", "3">> >>, << <<"b", "1">> >>, <<>>, <<>>, <<>>,
              <<>>) }

InitExpand ==
    /\ pc = "expand"
    /\ DedupeIdle
    /\ RankIdle
    /\ RelIdle
    /\ FanIdle
    /\ FetchIdle
    /\ LateIdle
    /\ hash_seed = 0
    /\ domain_context \in ExpandContexts
    /\ enable_domain_filtering = FALSE /\ enable_relevance_filtering = FALSE
    /\ domain_papers = <<>> /\ classifications = <<>> /\ class_path = <<>>
    /\ domain_results = <<>> /\ domain_filtered_papers = <<>>
    /\ original_query \in ExpandQueries
    /\ use_ai \in BOOLEAN
    /\ max_terms_per_category \in 1..MaxTerms
    /\ key_concepts = <<>>
    /\ ai_terms = <<>>
    /\ expanded_terms = <<>>
    /\ max_searches = 0

notExpandVars == <<dedupVars, rankVars, relVars, searchVars, fanVars, fetchVars,
                   lateVars>>

\* expand_query_terminology up to `if use_ai:` (returning when it is false)
RuleBasedExpansion ==
    /\ pc = "expand"
    /\ \E concepts \in _extract_key_concepts(original_query) :
           /\ key_concepts' = concepts
           /\ expanded_terms' =
                  WithDomainContext(
                      expand_terminology(original_query, concepts,
                                         max_terms_per_category),
                      domain_context)
    /\ pc' = IF use_ai THEN "ai_call" ELSE "terms_expanded"
    /\ UNCHANGED <<original_query, use_ai, max_terms_per_category, ai_terms,
                   max_searches, notExpandVars>>

\* the try block with expand_terminology_ai returning a dict (the empty one
\* when the agent call or json.loads failed inside it)
AiAnswered ==
    /\ pc = "ai_call"
    /\ \E ai \in AiAnswers :
           /\ ai_terms' = [raised |-> FALSE, terms |-> ai]
           /\ expanded_terms' =
                  WithAiTerms(expanded_terms, ai, max_terms_per_category)
    /\ pc' = "terms_expanded"
    /\ UNCHANGED <<original_query, use_ai, max_terms_per_category,
                   key_concepts, max_searches, notExpandVars>>

\* AITerminologyExpander() or asyncio.run(...) raised: except Exception: pass
AiRaised ==
    /\ pc = "ai_call"
    /\ ai_terms' = [raised |-> TRUE, terms |-> EmptyAiTerms]
    /\ pc' = "terms_expanded"
    /\ UNCHANGED <<original_query, use_ai, max_terms_per_category,
                   key_concepts, expanded_terms, max_searches, notExpandVars>>

NextExpand == RuleBasedExpansion \/ AiAnswered \/ AiRaised
SpecExpand == InitExpand /\ [][NextExpand]_vars

Categories ==
    {"primary_terms", "adjacent_terms", "broader_terms", "narrower_terms",
     "related_concepts", "alternative_phrasings"}
NoCaseDuplicates(terms) ==
    \A i, j \in DOMAIN terms : i # j => Lower(terms[i]) # Lower(terms[j])

\* C20: whatever the query, the domain context and the outcome of the AI
\* call, every category of the ExpandedTerminology returned is free of
\* case-insensitive duplicates and no longer than max_terms_per_category.
C20_CategoriesDedupedAndCapped ==
    pc = "terms_expanded" =>
        \A c \in Categories :
            /\ NoCaseDuplicates(expanded_terms[c])
            /\ Len(expanded_terms[c]) <= max_terms_per_category


(***************************************************************************)
(* The synthesis report validator (synthesis_tool.py)                      *)
(***************************************************************************)
\* the characters of the reports that lie outside ASCII, one character each
Bullet == "U+2022"
EmDash == "U+2014"
EnDash == "U+2013"
Approx == "U+2248"

\* _main_synthesis_target_range(_INSTRUCTIONS): the "220-300" of the
\* instruction line about the Main synthesis
target_min == 220
target_max == 300

MaxHypLines == 3

\* str.splitlines() of a text whose only line breaks are "\n"
SplitLines(s) ==
    IF s = <<>> THEN <<>>
    ELSE LET parts == Split(s, NL)
         IN IF parts[Len(parts)] = <<>>
            THEN SubSeq(parts, 1, Len(parts) - 1)
            ELSE parts

MainSynthesis == <<"M", "a", "i", "n", " ", "s", "y", "n", "t", "h", "e", "s", "i", "s">>
KeyTensions == <<"K", "e", "y", " ", "t", "e", "n", "s", "i", "o", "n", "s", " ", "&", " ", "g", "a", "p", "s">>
Hypotheses == <<"H", "y", "p", "o", "t", "h", "e", "s", "e", "s", " ", "&", " ", "m", "i", "n", "i", "m", "a", "l", " ", "t", "e", "s", "t", "s">>
References == <<"R", "e", "f", "e", "r", "e", "n", "c", "e", "s">>
Required == <<MainSynthesis, KeyTensions, Hypotheses, References>>

\* the loop of _extract_sections; current = <<>> is None
RECURSIVE ExtractFrom(_, _, _, _)
ExtractFrom(lines, k, current, sections) ==
    IF k > Len(lines) THEN sections
    ELSE LET stripped == Strip(lines[k])
         IN IF stripped \in DOMAIN sections
            THEN ExtractFrom(lines, k + 1, stripped, sections)
            ELSE IF current # <<>>
            THEN ExtractFrom(lines, k + 1, current,
                     [sections EXCEPT ![current] = @ \o lines[k] \o NL])
            ELSE ExtractFrom(lines, k + 1, current, sections)

_extract_sections(text) ==
    LET sections == ExtractFrom(SplitLines(text), 1, <<>>,
                                [name \in Range(Required) |-> <<>>])
    IN [name \in DOMAIN sections |-> Strip(sections[name])]

\* len([w for w in text.split() if w.strip()])
_word_count(text) ==
    Cardinality({i \in DOMAIN text :
                    ~IsSpace(text[i]) /\ (i = 1 \/ IsSpace(text[i - 1]))})

\* _WS_RE.sub(" ", s)
RECURSIVE CollapseSpaces(_)
CollapseSpaces(s) ==
    IF s = <<>> THEN <<>>
    ELSE IF IsSpace(Head(s)) THEN <<" ">> \o CollapseSpaces(LStrip(s))
    ELSE <<Head(s)>> \o CollapseSpaces(Tail(s))

_normalize_citation_key(key) == CollapseSpaces(Strip(key))

RECURSIVE LeadingDigits(_)
LeadingDigits(s) ==
    IF s # <<>> /\ IsDigit(Head(s)) THEN 1 + LeadingDigits(Tail(s)) ELSE 0

\* _REF_ENUM_RE = ^\d+[.)]\s+
_strip_reference_list_marker(line) ==
    LET stripped == LStrip(line)
        d == LeadingDigits(stripped)
    IN IF stripped # <<>> /\ stripped[1] \in {"-", Bullet}
       THEN LStrip(Tail(stripped))
       ELSE IF /\ d >= 1
               /\ Len(stripped) >= d + 2
               /\ stripped[d + 1] \in {".", ")"}
               /\ IsSpace(stripped[d + 2])
       THEN LStrip(SubSeq(stripped, d + 2, Len(stripped)))
       ELSE stripped

NonEmpty(s) == s # <<>>

\* the key one line of the References block contributes (<<>>: none)
ReferenceKey(line) ==
    LET cleaned == _strip_reference_list_marker(line)
        dash_index == Find(cleaned, <<EmDash>>)
        title == IF dash_index # 0
                 THEN Strip(SubSeq(cleaned, 1, dash_index - 1))
                 ELSE Strip(cleaned)
    IN _normalize_citation_key(title)

_parse_references(block) ==
    LET lines == SplitLines(block)
    IN SelectSeq([k \in DOMAIN lines |-> ReferenceKey(lines[k])], NonEmpty)

\* while j < len(text) and text[j].isspace(): j += 1
RECURSIVE SkipSpaces(_, _)
SkipSpaces(text, j) ==
    IF j <= Len(text) /\ IsSpace(text[j]) THEN SkipSpaces(text, j + 1) ELSE j

\* the keys of one bracketed group
GroupKeys(content) ==
    LET parts == Split(content, <<";">>)
    IN SelectSeq([k \in DOMAIN parts |-> _normalize_citation_key(parts[k])],
                 NonEmpty)

\* the loop of _find_inline_citations from position i (counted from 1)
RECURSIVE CitationsFrom(_, _)
CitationsFrom(text, i) ==
    LET open == FindFrom(text, <<"[">>, i)
        close == IF open = 0 THEN 0 ELSE FindFrom(text, <<"]">>, open + 1)
        j == SkipSpaces(text, close + 1)
    IN IF i > Len(text) \/ open = 0 \/ close = 0 THEN <<>>
       ELSE IF j <= Len(text) /\ text[j] = "("
       THEN CitationsFrom(text, close + 1)
       ELSE GroupKeys(Strip(SubSeq(text, open + 1, close - 1)))
                \o CitationsFrom(text, close + 1)

_find_inline_citations(main_text) == CitationsFrom(main_text, 1)

\* ln.strip().startswith("-") or ln.strip().startswith(bullet)
IsBulletLine(ln) ==
    StartsWith(Strip(ln), <<"-">>) \/ StartsWith(Strip(ln), <<Bullet>>)

TooManyFromTwo(hyp_bullets) == Len(hyp_bullets) >= 2
\* if len(hyp_bullets) > 2
TooManyHypotheses(hyp_bullets) == Len(hyp_bullets) > 2

\* output or ""
OrEmpty(value) == IF value.kind = "none" THEN <<>> ELSE value.text

Unmatched(found, keys) == SelectSeq(found, LAMBDA c : c \notin keys)

\* the list `issues` of synthesis_output_guardrail
Issues(sections) ==
    LET missing == SelectSeq(Required, LAMBDA s : sections[s] = <<>>)
        main_wc == _word_count(sections[MainSynthesis])
        hyp_bullets == SelectSeq(SplitLines(sections[Hypotheses]),
                                 IsBulletLine)
        keys == Range(_parse_references(sections[References]))
        found == _find_inline_citations(sections[MainSynthesis])
        unmatched == Unmatched(found, keys)
    IN (IF missing # <<>>
        THEN << <<"M", "i", "s", "s", "i", "n", "g", " ", "s", "e", "c", "t", "i", "o", "n", "s", ":", " ">> \o Join(missing, <<",", " ">>) >>
        ELSE <<>>)
       \o (IF main_wc < target_min
           THEN << <<"M", "a", "i", "n", " ", "s", "y", "n", "t", "h", "e", "s", "i", "s", " ", "l", "e", "n", "g", "t", "h", " ">> \o NatText(main_wc)
                   \o <<" ", "w", "o", "r", "d", "s", " ", "(", "b", "e", "l", "o", "w", " ", "t", "a", "r", "g", "e", "t", " ">> \o NatText(target_min)
                   \o <<EnDash>> \o NatText(target_max) \o <<")">> >>
           ELSE <<>>)
       \o (IF TooManyHypotheses(hyp_bullets)
           THEN << <<"T", "o", "o", " ", "m", "a", "n", "y", " ", "h", "y", "p", "o", "t", "h", "e", "s", "e", "s", " ", "(">> \o NatText(Len(hyp_bullets))
                   \o <<" ", ">", " ", "2", ")">> >>
           ELSE <<>>)
       \o (IF Contains(sections[MainSynthesis], <<"~">>)
           THEN << <<"U", "s", "e", " ">> \o <<Approx>>
                   \o <<" ", "f", "o", "r", " ", "a", "p", "p", "r", "o", "x", "i", "m", "a", "t", "e", " ", "v", "a", "l", "u", "e", "s", ";", " ", "'", "~", "'", " ", "f", "o", "u", "n", "d">> >>
           ELSE <<>>)
       \o (IF found # <<>> /\ keys # {} /\ unmatched # <<>>
           THEN << <<"I", "n", "l", "i", "n", "e", " ", "c", "i", "t", "a", "t", "i", "o", "n", "s", " ", "n", "o", "t", " ", "f", "o", "u", "n", "d", " ", "i", "n", " ", "R", "e", "f", "e", "r", "e", "n", "c", "e", "s", ":", " ">>
                   \o Join(unmatched, <<",", " ">>) >>
           ELSE <<>>)

\* the list `notes`
Notes(sections) ==
    LET main_wc == _word_count(sections[MainSynthesis])
    IN IF main_wc >= target_min /\ main_wc > target_max
       THEN << <<"M", "a", "i", "n", " ", "s", "y", "n", "t", "h", "e", "s", "i", "s", " ", "l", "e", "n", "g", "t", "h", " ">> \o NatText(main_wc)
               \o <<" ", "w", "o", "r", "d", "s", " ", "(", "a", "b", "o", "v", "e", " ", "t", "a", "r", "g", "e", "t", " ">> \o NatText(target_min)
               \o <<EnDash>> \o NatText(target_max)
               \o <<";", " ", "p", "e", "r", "m", "i", "t", "t", "e", "d", " ", "w", "h", "e", "n", " ", "n", "e", "e", "d", "e", "d", " ", "f", "o", "r", " ", "c", "o", "r", "r", "e", "c", "t", "n", "e", "s", "s", ")">> >>
       ELSE <<>>

OutputInfo(value) ==
    LET sections == _extract_sections(OrEmpty(value))
    IN [issues |-> Issues(sections),
        notes |-> Notes(sections),
        word_count |-> _word_count(sections[MainSynthesis]),
        target_range |-> <<target_min, target_max>>]

GuardrailFunctionOutput(output_info, tripwire_triggered) ==
    [output_info |-> output_info, tripwire_triggered |-> tripwire_triggered]

GuardrailTrippingOnIssues(value) ==
    GuardrailFunctionOutput(OutputInfo(value), OutputInfo(value).issues # <<>>)
synthesis_output_guardrail(value) ==
    GuardrailFunctionOutput(OutputInfo(value), FALSE)

\* the reports validated: a Main synthesis body, the lines under the
\* Hypotheses heading and the lines under the References heading (when
\* the report has one)
MainBodies ==
    { <<>>,
      <<"a", " ", "[", "F", "o", "o", ",", " ", "2", "0", "2", "4", "]", " ", "b", ".">>,
      <<"[", "F", "o", "o", ",", " ", "2", "0", "2", "4", "]", " ", "(", "h", "u", "m", "a", "n", " ", "R", "C", "T", ")">>,
      <<"[", "t", "e", "x", "t", "]", "(", "u", "r", "l", ")", " ", "[", "B", "a", "r", ",", " ", " ", "2", "0", "2", "3", ";", " ", "F", "o", "o", ",", " ", "2", "0", "2", "4", "]">>,
      <<"~", "2", "x", " ", "[", "B", "a", "z", ",", " ", "2", "0", "2", "0">> }
HypLinePool ==
    { <<>>, <<"-", " ", "H", "1">>, <<" ", " ", Bullet, " ", "H", "2">>, <<"n", "o", "t", "e">> }
ReferenceLists ==
    { <<>>,
      << <<"-", " ", "F", "o", "o", ",", " ", "2", "0", "2", "4", " ">> \o <<EmDash>> \o <<" ", "u">> >>,
      << <<"1", ".", " ", "F", "o", "o", ",", " ", " ", "2", "0", "2", "4">> \o <<EmDash>> \o <<"u">>, <<"2", ")", " ", "B", "a", "r", ",", " ", "2", "0", "2", "3">> >> }
Reports ==
    { [headings |-> TRUE, main |-> m, hyp_lines |-> h,
       has_references |-> b, refs |-> r] :
        m \in MainBodies, h \in SeqsUpTo(HypLinePool, MaxHypLines),
        b \in BOOLEAN, r \in ReferenceLists }
NoReport ==
    [headings |-> FALSE, main |-> <<>>, hyp_lines |-> <<>>,
     has_references |-> FALSE, refs |-> <<>>]

Render(r) ==
    IF ~r.headings THEN <<>>
    ELSE Join(<<MainSynthesis, r.main, KeyTensions, <<"-", " ", "g", "a", "p">>, Hypotheses>>
              \o r.hyp_lines
              \o (IF r.has_references THEN <<References>> \o r.refs
                  ELSE <<>>),
              NL)

notReportVars == <<dedupVars, rankVars, relVars, searchVars, fanVars,
                   fetchVars, expandVars, budgetVars, runVars, quotaVars>>

InitGuardrail ==
    /\ pc = "validate"
    /\ DedupeIdle
    /\ RankIdle
    /\ RelIdle
    /\ SearchIdle
    /\ FanIdle
    /\ FetchIdle
    /\ ExpandIdle
    /\ BudgetIdle
    /\ RunIdle
    /\ QuotaIdle
    /\ \/ /\ report \in {r \in Reports : r.has_references \/ r.refs = <<>>}
          /\ output = Str(Render(report))
       \/ /\ report = NoReport
          /\ output \in {NoneValue, Str(<<>>)}
    /\ cites = <<>>
    /\ ref_keys = {}
    /\ guardrail_result = <<>>

\* synthesis_output_guardrail(ctx, agent, output)
Validate ==
    /\ pc = "validate"
    /\ LET sections == _extract_sections(OrEmpty(output))
       IN /\ ref_keys' = Range(_parse_references(sections[References]))
          /\ cites' = _find_inline_citations(sections[MainSynthesis])
    /\ guardrail_result' = synthesis_output_guardrail(output)
    /\ pc' = "validated"
    /\ UNCHANGED <<report, output, notReportVars>>

NextGuardrail == Validate
SpecGuardrail == InitGuardrail /\ [][NextGuardrail]_vars

HasIssue(prefix) ==
    \E k \in DOMAIN guardrail_result.output_info.issues :
        StartsWith(guardrail_result.output_info.issues[k], prefix)

\* a result with the four entries of output_info and the tripwire not set
NeverBlocking(result) ==
    /\ DOMAIN result = {"output_info", "tripwire_triggered"}
    /\ DOMAIN result.output_info =
           {"issues", "notes", "word_count", "target_range"}
    /\ result.tripwire_triggered = FALSE

\* C21: the validator never blocks: for every output, the empty and the
\* missing one included, it returns a result with issues, notes, word_count
\* and target_range whose tripwire_triggered is false, whatever the issues
C21_NeverBlocks ==
    /\ pc = "validate" => NeverBlocking(synthesis_output_guardrail(output))
    /\ pc = "validated" => NeverBlocking(guardrail_result)
C21_Witness ==
    /\ pc = "validated"
    /\ output = NoneValue
    /\ Len(guardrail_result.output_info.issues) >= 2
    /\ guardrail_result.tripwire_triggered = FALSE

\* lines whose first non-blank character is '-' or the bullet character
BulletLines(lines) ==
    {k \in DOMAIN lines :
        LStrip(lines[k]) # <<>> /\ Head(LStrip(lines[k])) \in {"-", Bullet}}

\* C22: issues has a 'too many hypotheses' entry exactly when the
\* 'Hypotheses & minimal tests' section holds more than 2 bullet lines
C22_HypothesesCap ==
    pc = "validated" =>
        (HasIssue(<<"T", "o", "o", " ", "m", "a", "n", "y", " ", "h", "y", "p", "o", "t", "h", "e", "s", "e", "s">>)
            <=> Cardinality(BulletLines(report.hyp_lines)) > 2)
C22_Witness ==
    /\ pc = "validated"
    /\ Cardinality(BulletLines(report.hyp_lines)) = 3
    /\ \E k \in DOMAIN report.hyp_lines :
           Head(LStrip(report.hyp_lines[k])) = Bullet
    /\ report.has_references /\ report.refs # <<>>
    /\ HasIssue(<<"T", "o", "o", " ", "m", "a", "n", "y", " ", "h", "y", "p", "o", "t", "h", "e", "s", "e", "s", " ", "(", "3", " ", ">", " ", "2", ")">>)

\* C23: every inline citation key of the Main synthesis that is not in the
\* reference-key set yields an issue listing the unmatched keys, the empty
\* reference-key set of an empty or missing References section included
C23_UnmatchedReported ==
    pc = "validated" =>
        (Unmatched(cites, ref_keys) # <<>> =>
            \E k \in DOMAIN guardrail_result.output_info.issues :
                guardrail_result.output_info.issues[k] =
                    <<"I", "n", "l", "i", "n", "e", " ", "c", "i", "t", "a", "t", "i", "o", "n", "s", " ", "n", "o", "t", " ", "f", "o", "u", "n", "d", " ", "i", "n", " ", "R", "e", "f", "e", "r", "e", "n", "c", "e", "s", ":", " ">>
                        \o Join(Unmatched(cites, ref_keys), <<",", " ">>))

\* the keys of the groups not immediately followed by '(' from position i
RECURSIVE ImmediateCitationsFrom(_, _)
ImmediateCitationsFrom(text, i) ==
    LET open == FindFrom(text, <<"[">>, i)
        close == IF open = 0 THEN 0 ELSE FindFrom(text, <<"]">>, open + 1)
    IN IF i > Len(text) \/ open = 0 \/ close = 0 THEN <<>>
       ELSE IF close + 1 <= Len(text) /\ text[close + 1] = "("
       THEN ImmediateCitationsFrom(text, close + 1)
       ELSE GroupKeys(Strip(SubSeq(text, open + 1, close - 1)))
                \o ImmediateCitationsFrom(text, close + 1)

\* C24: the citation finder returns the keys of exactly the bracketed groups
\* not immediately followed by '(': a group followed by whitespace and then
\* '(' is counted as a citation
C24_ImmediateParenOnly ==
    pc = "validated" =>
        cites = ImmediateCitationsFrom(
                    _extract_sections(OrEmpty(output))[MainSynthesis], 1)


\* the seconds slept between the request at position k of page_requests and
\* the request before it (the whole seconds: a retry sleeps 2 ** attempt plus
\* a fraction below one second)
RECURSIVE WaitBefore(_, _)
WaitBefore(log, k) ==
    IF k = 1 \/ log[k - 1].op = "get" THEN 0
    ELSE log[k - 1].seconds + WaitBefore(log, k - 1)

\* C27: within one _fetch every HTTP request after the first is preceded by
\* a wait of at least 3 seconds since the previous request, the first
\* request of the fallback attempt and the retries of a failed request
\* included
C27_ThreeSecondsBetweenRequests ==
    \A k \in DOMAIN page_requests :
        (/\ page_requests[k].op = "get"
         /\ \E j \in 1..(k - 1) : page_requests[j].op = "get")
            => WaitBefore(page_requests, k) >= 3


\* the paper blocks of a formatted text
BlockCount(text) ==
    IF text = NoRelevantPapersFound \/ text = <<>> THEN 0
    ELSE Len(Split(text, NLNL))

\* C28: for any scorer output, a paper_id of its own included, the text
\* returned by the convenience filter_papers_by_relevance has as many paper
\* blocks as filter_results.filtered_count, shows every paper of
\* papers_scored, and is 'No relevant papers found.' only when
\* filtered_count is 0
C28_FormattedTextMatchesResults ==
    pc = "formatted" =>
        /\ BlockCount(formatted_text) = filter_results.filtered_count
        /\ \A k \in DOMAIN filter_results.papers_scored :
               \E b \in Range(Split(formatted_text, NLNL)) :
                   StartsWith(b, filter_results.papers_scored[k].title)
        /\ formatted_text = NoRelevantPapersFound
               => filter_results.filtered_count = 0


(***************************************************************************)
(* The research budget shared by the tool wrappers (agents/tools.py) and   *)
(* the runs of the research agent that set and clear it                    *)
(***************************************************************************)
MaxCalls == 2
MaxTools == 2
MaxClock == 3

Runs == {"A", "B"}
Tools == 1..MaxTools
Invocations == Runs \X Tools

\* the dict _BUDGET as the module creates it
DefaultBudget ==
    [max_calls |-> 3, calls |-> 0, started |-> 0, global_seconds |-> 20,
     per_source_max |-> 12]

set_research_budget(b, max_calls, global_seconds, per_source_max, now) ==
    [b EXCEPT !.max_calls = max_calls, !.calls = 0, !.started = now,
              !.global_seconds = global_seconds,
              !.per_source_max = per_source_max]

clear_research_budget(b) ==
    [b EXCEPT !.calls = 0, !.started = 0, !.per_source_max = 12]

\* the two tests of _check_budget
TimeExceeded(b, now) ==
    b.started # 0 /\ now - b.started > b.global_seconds
CallsExceeded(b) == b.calls >= b.max_calls

\* the budgets the runs set (max_calls, global_seconds, per_source_max):
\* run A asks for one result per source, run B for the most
RunArguments ==
    { f \in [Runs -> [max_calls : 1..MaxCalls, global_seconds : {1},
                      per_source_max : 1..MaxResults]] :
        f["A"].per_source_max = 1 /\ f["B"].per_source_max = MaxResults }

notBudgetVars == <<dedupVars, rankVars, relVars, searchVars, fanVars,
                   fetchVars, expandVars, reportVars, runVars, quotaVars>>

InitBudget ==
    /\ pc = "budget"
    /\ DedupeIdle
    /\ RankIdle
    /\ RelIdle
    /\ SearchIdle
    /\ FanIdle
    /\ FetchIdle
    /\ ExpandIdle
    /\ ReportIdle
    /\ RunIdle
    /\ QuotaIdle
    /\ _BUDGET = DefaultBudget
    /\ clock = 1
    /\ run_pc = [r \in Runs |-> "idle"]
    /\ run_args \in RunArguments
    /\ tool_pc = [i \in Invocations |-> "idle"]
    /\ tool_local = [i \in Invocations |-> 0]
    /\ admitted = [r \in Runs |-> 0]
    /\ cap_seen = [i \in Invocations |-> 0]

\* time passes
Tick ==
    /\ clock < MaxClock
    /\ clock' = clock + 1
    /\ UNCHANGED <<pc, _BUDGET, run_pc, run_args, tool_pc, tool_local,
                   admitted, cap_seen, notBudgetVars>>

\* run_research_agent: set_research_budget(max_calls=..., ...)
SetResearchBudget(r) ==
    /\ run_pc[r] = "idle"
    /\ _BUDGET' = set_research_budget(_BUDGET, run_args[r].max_calls,
                                      run_args[r].global_seconds,
                                      run_args[r].per_source_max, clock)
    /\ run_pc' = [run_pc EXCEPT ![r] = "running"]
    /\ UNCHANGED <<pc, clock, run_args, tool_pc, tool_local, admitted,
                   cap_seen, notBudgetVars>>

\* a tool wrapper is invoked: _check_budget up to its two tests
CheckBudget(r, t) ==
    /\ run_pc[r] = "running"
    /\ tool_pc[<<r, t>>] = "idle"
    /\ tool_pc' = [tool_pc EXCEPT ![<<r, t>>] =
                      IF TimeExceeded(_BUDGET, clock) \/ CallsExceeded(_BUDGET)
                      THEN "raised" ELSE "checked"]
    /\ UNCHANGED <<pc, _BUDGET, clock, run_pc, run_args, tool_local, admitted,
                   cap_seen, notBudgetVars>>

\* _BUDGET["calls"] += 1: the value is loaded ...
LoadCalls(r, t) ==
    /\ tool_pc[<<r, t>>] = "checked"
    /\ tool_local' = [tool_local EXCEPT ![<<r, t>>] = _BUDGET.calls]
    /\ tool_pc' = [tool_pc EXCEPT ![<<r, t>>] = "loaded"]
    /\ UNCHANGED <<pc, _BUDGET, clock, run_pc, run_args, admitted, cap_seen,
                   notBudgetVars>>

\* ... and stored back incremented; _check_budget returns
StoreCalls(r, t) ==
    /\ tool_pc[<<r, t>>] = "loaded"
    /\ _BUDGET' = [_BUDGET EXCEPT !.calls = tool_local[<<r, t>>] + 1]
    /\ admitted' = [admitted EXCEPT ![r] = @ + 1]
    /\ tool_pc' = [tool_pc EXCEPT ![<<r, t>>] = "admitted"]
    /\ UNCHANGED <<pc, clock, run_pc, run_args, tool_local, cap_seen,
                   notBudgetVars>>

\* cap = min(int(max_results), int(_BUDGET.get("per_source_max", ...))) with
\* a max_results above every cap, and the call of the fetcher with it
CallFetcher(r, t) ==
    /\ tool_pc[<<r, t>>] = "admitted"
    /\ cap_seen' = [cap_seen EXCEPT ![<<r, t>>] =
                        Min(MaxResults + 1, _BUDGET.per_source_max)]
    /\ tool_pc' = [tool_pc EXCEPT ![<<r, t>>] = "fetched"]
    /\ UNCHANGED <<pc, _BUDGET, clock, run_pc, run_args, tool_local, admitted,
                   notBudgetVars>>

\* run_research_agent: `finally: clear_research_budget()`, once the tool
\* invocations of the run have ended
ClearResearchBudget(r) ==
    /\ run_pc[r] = "running"
    /\ \A t \in Tools : tool_pc[<<r, t>>] \in {"idle", "raised", "fetched"}
    /\ _BUDGET' = clear_research_budget(_BUDGET)
    /\ run_pc' = [run_pc EXCEPT ![r] = "cleared"]
    /\ UNCHANGED <<pc, clock, run_args, tool_pc, tool_local, admitted,
                   cap_seen, notBudgetVars>>

NextBudget ==
    \/ Tick
    \/ \E r \in Runs : SetResearchBudget(r)
    \/ \E r \in Runs, t \in Tools : CheckBudget(r, t)
    \/ \E r \in Runs, t \in Tools : LoadCalls(r, t)
    \/ \E r \in Runs, t \in Tools : StoreCalls(r, t)
    \/ \E r \in Runs, t \in Tools : CallFetcher(r, t)
    \/ \E r \in Runs : ClearResearchBudget(r)
SpecBudget == InitBudget /\ [][NextBudget]_vars

\* C25: the calls admitted between a run's set_research_budget and its
\* clear_research_budget never exceed that run's max_calls, and while a run
\* is in progress the counter and the per-source cap it sees are those of
\* its own budget, whatever the other runs set or clear
C25_BudgetPerRun ==
    \A r \in Runs :
        /\ admitted[r] <= run_args[r].max_calls
        /\ run_pc[r] = "running" =>
               /\ _BUDGET.calls >= admitted[r]
               /\ _BUDGET.per_source_max = run_args[r].per_source_max
        /\ \A t \in Tools :
               tool_pc[<<r, t>>] = "fetched" =>
                   cap_seen[<<r, t>>] <= run_args[r].per_source_max


(***************************************************************************)
(* One run of the research agent (research_agent.py): the budget is set,   *)
(* the agent invokes tools, the tool results or the heuristic fallback     *)
(* make the ResearchOutput, the budget is cleared                          *)
(***************************************************************************)
MaxInvocations == 3

ToolNames == {"arxiv_search", "enhanced_arxiv_search", "pubmed_search",
              "openalex_search"}

\* the source _tools_to_output files a tool's result under
SourceOfTool(name) ==
    IF name \in {"arxiv_search", "enhanced_arxiv_search"} THEN "arxiv"
    ELSE IF name = "pubmed_search" THEN "pubmed"
    ELSE "openalex"

BudgetExceededTime == <<"R", "e", "s", "e", "a", "r", "c", "h", " ", "b", "u", "d", "g", "e", "t", " ", "e", "x", "c", "e", "e", "d", "e", "d", " ", "(", "t", "i", "m", "e", ")">>
BudgetExceededCalls == <<"R", "e", "s", "e", "a", "r", "c", "h", " ", "b", "u", "d", "g", "e", "t", " ", "e", "x", "c", "e", "e", "d", "e", "d", " ", "(", "t", "o", "o", "l", " ", "c", "a", "l", "l", "s", ")">>

\* what a fetcher may return: papers, blanks, its no-result text
FetcherOutputs == { <<"P", " ", "(", "2", "0", "2", "4", ")">>, <<" ">>, NoPapersFound }

\* the terms of the fallback that select PubMed
BiomedTerms == { <<"h", "e", "a", "l", "t", "h">>, <<"d", "r", "u", "g">> }
RunQueries == { [query |-> <<"d", "r", "u", "g", " ", "x">>, max_results |-> 1],
                [query |-> <<"s", "t", "a", "r", "s">>, max_results |-> MaxResults] }

NoSources ==
    [s \in {"arxiv", "pubmed", "openalex"} |-> NoResults]

\* the RuntimeError _check_budget raises for this budget now (<<>>: none)
_check_budget(b, now) ==
    IF TimeExceeded(b, now) THEN BudgetExceededTime
    ELSE IF CallsExceeded(b) THEN BudgetExceededCalls
    ELSE <<>>

ToolResult(name, outcome, raised) ==
    [name |-> name, output |-> outcome, raised |-> raised]
FetcherCall(source, exceeded) == [source |-> source, exceeded |-> exceeded]

\* the loop of _tools_to_output over the first k tool results
RECURSIVE ToolSources(_, _)
ToolSources(tool_outputs, k) ==
    IF k = 0 THEN [sources |-> NoSources, used |-> <<>>]
    ELSE LET before == ToolSources(tool_outputs, k - 1)
             r == tool_outputs[k]
             source == SourceOfTool(r.name)
             text == IF Strip(r.output) = <<>> THEN NoResults
                     ELSE Strip(r.output)
         IN [sources |-> [before.sources EXCEPT ![source] = text],
             used |-> IF InSeq(source, before.used) THEN before.used
                      ELSE Append(before.used, source)]

ResearchOutput(sources, used_sources) ==
    [sources |-> sources, used_sources |-> used_sources]

_tools_to_output(tool_outputs) ==
    LET built == ToolSources(tool_outputs, Len(tool_outputs))
    IN ResearchOutput(built.sources, built.used)

\* chosen_sources of the fallback, in the order its `if`s fetch them
ChosenSources(text) ==
    IF \E t \in BiomedTerms : Contains(Lower(text), t)
    THEN <<"arxiv", "pubmed">>
    ELSE <<"arxiv", "openalex">>

notRunVars == <<dedupVars, rankVars, relVars, searchVars, fanVars,
                fetchVars, expandVars, reportVars, quotaVars>>
idleBudgetVars == <<run_pc, run_args, tool_pc, tool_local, admitted,
                    cap_seen>>

InitRun ==
    /\ pc = "set_budget"
    /\ DedupeIdle
    /\ RankIdle
    /\ RelIdle
    /\ SearchIdle
    /\ FanIdle
    /\ FetchIdle
    /\ ExpandIdle
    /\ ReportIdle
    /\ QuotaIdle
    /\ _BUDGET \in {DefaultBudget, clear_research_budget(
           set_research_budget(DefaultBudget, MaxCalls, 1, 1, 1))}
    /\ clock = 1
    /\ run_pc = <<>> /\ run_args = <<>> /\ tool_pc = <<>>
    /\ tool_local = <<>> /\ admitted = <<>> /\ cap_seen = <<>>
    /\ run_query \in RunQueries
    /\ tool_results = <<>>
    /\ fetcher_calls = <<>>
    /\ budget_raised = FALSE
    /\ research_output = <<>>

\* time passes while the run waits for the model or a source
TimePasses ==
    /\ pc \in {"agent", "fallback"}
    /\ clock < MaxClock
    /\ clock' = clock + 1
    /\ UNCHANGED <<pc, _BUDGET, idleBudgetVars, runVars, notRunVars>>

\* set_research_budget(max_calls=max_calls, global_seconds=global_secs,
\* per_source_max=max(1, int(max_results)))
StartRun ==
    /\ pc = "set_budget"
    /\ \E max_calls \in 1..MaxCalls :
           _BUDGET' = set_research_budget(_BUDGET, max_calls, 1,
                                          Max(1, run_query.max_results),
                                          clock)
    /\ pc' = "agent"
    /\ UNCHANGED <<clock, idleBudgetVars, runVars, notRunVars>>

\* the agent invokes a tool and _check_budget lets it pass: the fetcher is
\* called and its output is the tool's result
ToolReturns ==
    /\ pc = "agent"
    /\ Len(tool_results) < MaxInvocations
    /\ _check_budget(_BUDGET, clock) = <<>>
    /\ _BUDGET' = [_BUDGET EXCEPT !.calls = @ + 1]
    /\ \E name \in ToolNames, text \in FetcherOutputs :
           /\ tool_results' = Append(tool_results,
                                     ToolResult(name, text, FALSE))
           /\ fetcher_calls' = Append(fetcher_calls,
                                      FetcherCall(SourceOfTool(name), FALSE))
    /\ UNCHANGED <<pc, clock, idleBudgetVars, run_query, budget_raised,
                   research_output, notRunVars>>

\* the agent invokes a tool and _check_budget raises; the agent runtime
\* hands the error text to the run as that tool's output
ToolErrorReported ==
    /\ pc = "agent"
    /\ Len(tool_results) < MaxInvocations
    /\ _check_budget(_BUDGET, clock) # <<>>
    /\ \E name \in ToolNames :
           tool_results' = Append(tool_results,
               ToolResult(name, _check_budget(_BUDGET, clock), TRUE))
    /\ budget_raised' = TRUE
    /\ UNCHANGED <<pc, _BUDGET, clock, idleBudgetVars, run_query,
                   fetcher_calls, research_output, notRunVars>>

\* the agent invokes a tool, _check_budget raises and Runner.run raises in
\* turn: `except Exception:` starts the fallback
ToolErrorPropagates ==
    /\ pc = "agent"
    /\ Len(tool_results) < MaxInvocations
    /\ _check_budget(_BUDGET, clock) # <<>>
    /\ budget_raised' = TRUE
    /\ pc' = "fallback"
    /\ UNCHANGED <<_BUDGET, clock, idleBudgetVars, run_query, tool_results,
                   fetcher_calls, research_output, notRunVars>>

\* Runner.run raises before any tool was invoked (no API key, a failed
\* model call)
RunnerFails ==
    /\ pc = "agent"
    /\ tool_results = <<>>
    /\ pc' = "fallback"
    /\ UNCHANGED <<_BUDGET, clock, idleBudgetVars, runVars, notRunVars>>

\* the tool results become the final output: return result.final_output
ToolsToOutput ==
    /\ pc = "agent"
    /\ tool_results # <<>>
    /\ research_output' = _tools_to_output(tool_results)
    /\ pc' = "finally"
    /\ UNCHANGED <<_BUDGET, clock, idleBudgetVars, run_query, tool_results,
                   fetcher_calls, budget_raised, notRunVars>>

\* the except branch: the chosen sources are fetched directly until one
\* raises, and a new ResearchOutput is built
Fallback ==
    /\ pc = "fallback"
    /\ LET chosen == ChosenSources(run_query.query)
           exceeded == _check_budget(_BUDGET, clock) # <<>>
       IN \E fetched \in 0..Len(chosen), raising \in BOOLEAN :
           \E texts \in [1..fetched -> FetcherOutputs] :
               /\ raising => fetched < Len(chosen)
               /\ fetcher_calls' = fetcher_calls
                      \o [k \in 1..(IF raising THEN fetched + 1 ELSE fetched)
                            |-> FetcherCall(chosen[k], exceeded)]
               /\ research_output' =
                      ResearchOutput(
                          [s \in DOMAIN NoSources |->
                              IF \E k \in 1..fetched : chosen[k] = s
                              THEN texts[CHOOSE k \in 1..fetched :
                                            chosen[k] = s]
                              ELSE NoResults],
                          SubSeq(chosen, 1, fetched))
    /\ pc' = "finally"
    /\ UNCHANGED <<_BUDGET, clock, idleBudgetVars, run_query, tool_results,
                   budget_raised, notRunVars>>

\* finally: clear_research_budget()
ClearBudget ==
    /\ pc = "finally"
    /\ _BUDGET' = clear_research_budget(_BUDGET)
    /\ pc' = "run_returned"
    /\ UNCHANGED <<clock, idleBudgetVars, runVars, notRunVars>>

NextRun ==
    \/ TimePasses \/ StartRun \/ ToolReturns \/ ToolErrorReported
    \/ ToolErrorPropagates \/ RunnerFails \/ ToolsToOutput \/ Fallback
    \/ ClearBudget
SpecRun == InitRun /\ [][NextRun]_vars

\* the output of the last tool invocation of the source that returned
\* (<<>>: none returned)
LastCollected(source) ==
    LET hits == {k \in DOMAIN tool_results :
                    /\ ~tool_results[k].raised
                    /\ SourceOfTool(tool_results[k].name) = source}
    IN IF hits = {} THEN <<>>
       ELSE << tool_results[CHOOSE k \in hits : \A j \in hits : j <= k] >>

MaxRequests == 3
MaxLimit == 2
MaxEpoch == 3

Requests == 1..MaxRequests
Gpt5 == <<"g", "p", "t", "-", "5">>
Gpt5Mini == <<"g", "p", "t", "-", "5", "-", "m", "i", "n", "i">>
ClientIp == <<"a">>
\* the model argument: None, a padded name, a limited and an unlimited name
RequestModels == { NoneValue, Str(<<" ", "g", "p", "t", "-", "5">>), Str(Gpt5Mini), Str(<<"x">>) }

\* the settings: QUOTA_GPT5_PER_IP, QUOTA_GPT5_MINI_PER_IP and
\* FREE_QUOTA_WINDOW_SECONDS as int(os.getenv(...) or default) reads them
Environments ==
    [gpt5 : 0..MaxLimit, mini : {1}, window_seconds : {1, 2}]

\* limits[model_clean] (0 - 1: not in limits)
LimitOf(settings, model_clean) ==
    IF model_clean = Gpt5 THEN settings.gpt5
    ELSE IF model_clean = Gpt5Mini THEN settings.mini
    ELSE 0 - 1

QuotaKey(ip, model_clean) == ip \o <<":", ":">> \o model_clean

LockIgnored(holder) == TRUE
\* with _quota_lock: the lock can be acquired
LockFree(holder) == holder = 0

\* a request before its call, and its local variables
IdleRequest ==
    [pc |-> "idle", key |-> <<>>, limit |-> 0, now |-> 0, count |-> 0,
     reset_at |-> 0, expired |-> FALSE, seen |-> <<>>]

\* what a request returned, with the count and window it decided on
Decision(request, allowed, remaining, reset_in, unchanged) ==
    [key |-> request.key, allowed |-> allowed, remaining |-> remaining,
     reset_in |-> reset_in, count |-> request.count,
     reset_at |-> request.reset_at, expired |-> request.expired,
     unchanged |-> unchanged]
NoDecision == [allowed |-> FALSE, remaining |-> 0 - 2]

notQuotaVars == <<dedupVars, rankVars, relVars, searchVars, fanVars,
                  fetchVars, expandVars, reportVars, budgetVars, runVars>>

InitQuota ==
    /\ pc = "quota"
    /\ DedupeIdle
    /\ RankIdle
    /\ RelIdle
    /\ SearchIdle
    /\ FanIdle
    /\ FetchIdle
    /\ ExpandIdle
    /\ ReportIdle
    /\ BudgetIdle
    /\ RunIdle
    /\ environ \in Environments
    /\ epoch = 1
    /\ _model_quota_store = <<>>
    /\ lock_holder = 0
    /\ requests = [t \in Requests |-> IdleRequest]
    /\ decisions = [t \in Requests |-> NoDecision]

\* time passes
EpochPasses ==
    /\ epoch < MaxEpoch
    /\ epoch' = epoch + 1
    /\ UNCHANGED <<pc, environ, _model_quota_store, lock_holder, requests,
                   decisions, notQuotaVars>>

\* the requests are numbered in the order of their arrival
NextToArrive(t) ==
    /\ requests[t].pc = "idle"
    /\ \A u \in 1..(t - 1) : requests[u].pc # "idle"

\* a request for a model without a limit, or with a limit <= 0
UnlimitedRequest(t) ==
    /\ NextToArrive(t)
    /\ \E model \in RequestModels :
        /\ LimitOf(environ, Strip(OrEmpty(model))) <= 0
        /\ decisions' = [decisions EXCEPT ![t] =
               Decision([IdleRequest EXCEPT
                            !.key = QuotaKey(ClientIp, Strip(OrEmpty(model)))],
                        TRUE, 0 - 1, environ.window_seconds, TRUE)]
    /\ requests' = [requests EXCEPT ![t].pc = "returned"]
    /\ UNCHANGED <<pc, environ, epoch, _model_quota_store, lock_holder,
                   notQuotaVars>>

\* a request for a limited model, up to `now = time.time()`
LimitedRequest(t) ==
    /\ NextToArrive(t)
    /\ \E model \in RequestModels :
        /\ LimitOf(environ, Strip(OrEmpty(model))) > 0
        /\ requests' = [requests EXCEPT ![t] =
               [IdleRequest EXCEPT
                   !.pc = "waiting",
                   !.key = QuotaKey(ClientIp, Strip(OrEmpty(model))),
                   !.limit = LimitOf(environ, Strip(OrEmpty(model))),
                   !.now = epoch]]
    /\ UNCHANGED <<pc, environ, epoch, _model_quota_store, lock_holder,
                   decisions, notQuotaVars>>

\* with _quota_lock: (entered)
AcquireLock(t) ==
    /\ requests[t].pc = "waiting"
    /\ LockFree(lock_holder)
    /\ lock_holder' = t
    /\ requests' = [requests EXCEPT ![t].pc = "locked"]
    /\ UNCHANGED <<pc, environ, epoch, _model_quota_store, decisions,
                   notQuotaVars>>

\* count, reset_at = _model_quota_store.get(key, (0, now + window_seconds))
\* and the reset of an expired window
ReadStore(t) ==
    /\ requests[t].pc = "locked"
    /\ LET r == requests[t]
           stored == Get(_model_quota_store, r.key,
                         <<0, r.now + environ.window_seconds>>)
           expired == r.now >= stored[2]
       IN requests' = [requests EXCEPT ![t] =
              [r EXCEPT !.pc = "read",
                        !.count = IF expired THEN 0 ELSE stored[1],
                        !.reset_at = IF expired
                                     THEN r.now + environ.window_seconds
                                     ELSE stored[2],
                        !.expired = expired,
                        !.seen = _model_quota_store]]
    /\ UNCHANGED <<pc, environ, epoch, _model_quota_store, lock_holder,
                   decisions, notQuotaVars>>

\* `if count < limit:` with its two branches, and the lock released
CheckAndIncrement(t) ==
    /\ requests[t].pc = "read"
    /\ LET r == requests[t]
       IN IF r.count < r.limit
          THEN /\ _model_quota_store' =
                      [k \in DOMAIN _model_quota_store \cup {r.key} |->
                          IF k = r.key THEN <<r.count + 1, r.reset_at>>
                          ELSE _model_quota_store[k]]
               /\ decisions' = [decisions EXCEPT ![t] =
                      Decision([r EXCEPT !.count = r.count + 1], TRUE,
                               Max(0, r.limit - (r.count + 1)),
                               r.reset_at - r.now, FALSE)]
          ELSE /\ _model_quota_store' = _model_quota_store
               /\ decisions' = [decisions EXCEPT ![t] =
                      Decision(r, FALSE, 0, r.reset_at - r.now,
                               _model_quota_store = r.seen)]
    /\ lock_holder' = 0
    /\ requests' = [requests EXCEPT ![t] =
                       [IdleRequest EXCEPT !.pc = "returned"]]
    /\ UNCHANGED <<pc, environ, epoch, notQuotaVars>>

NextQuota ==
    \/ EpochPasses
    \/ \E t \in Requests : UnlimitedRequest(t)
    \/ \E t \in Requests : LimitedRequest(t)
    \/ \E t \in Requests : AcquireLock(t)
    \/ \E t \in Requests : ReadStore(t)
    \/ \E t \in Requests : CheckAndIncrement(t)
SpecQuota == InitQuota /\ [][NextQuota]_vars

\* the requests that returned under a positive limit
Limited == {t \in Requests : decisions[t].remaining >= 0}

\* the requests of a key allowed within the window that ends at reset_at
AllowedWithin(key, reset_at) ==
    {t \in Limited :
        /\ decisions[t].allowed
        /\ decisions[t].key = key
        /\ decisions[t].reset_at = reset_at}

\* C30: for every key with a positive limit the requests allowed within one
\* window never exceed the limit; a denied request leaves the store as it
\* was; the first request after the window expired is allowed and restarts
\* the count at 1
C30_QuotaPerWindow ==
    \A t \in Limited :
        /\ Cardinality(AllowedWithin(decisions[t].key, decisions[t].reset_at))
               <= LimitOf(environ, SubSeq(decisions[t].key,
                                          Len(ClientIp) + 3,
                                          Len(decisions[t].key)))
        /\ ~decisions[t].allowed => decisions[t].unchanged
        /\ decisions[t].expired =>
               decisions[t].allowed /\ decisions[t].count = 1
C30_Witness ==
    /\ \E t \in Limited : ~decisions[t].allowed
    /\ \E t \in Limited :
           /\ decisions[t].expired
           /\ decisions[t].allowed
           /\ _model_quota_store[decisions[t].key][1] = 1
    /\ \A t \in Requests : requests[t].pc = "returned"

(***************************************************************************)
(* Orchestration: workflows.orchestrate_research                           *)
(***************************************************************************)
NoPapersToAnalyze == <<"N", "o", " ", "p", "a", "p", "e", "r", "s", " ", "f", "o", "u", "n", "d", " ", "t", "o", " ", "a", "n", "a", "l", "y", "z", "e", ".">>
NoPapersFoundPrefix == <<"N", "o", " ", "p", "a", "p", "e", "r", "s", " ", "f", "o", "u", "n", "d">>
UrlMarker == <<"U", "R", "L", ":", " ">>
SubstantialLength == 100

\* content.count(sub)
Count(s, sub) == Len(Split(s, sub)) - 1

\* the test multi_source_search makes before used.append(source)
Yielded(text) ==
    /\ text # <<>>
    /\ ~StartsWith(text, ErrorPrefix)
    /\ Strip(text) # NoPapersFound

\* `sources` of multi_source_search: None stands for arXiv and OpenAlex
ResolvedSources(sources) ==
    IF sources.given THEN sources.list ELSE {"arxiv", "openalex"}

\* the value of a dict entry that is a list of source names
ListValue(lst) == [kind |-> "list", text |-> lst]

\* multi_source_search under RESEARCH_STRATEGY = all / all_sources / direct;
\* fetched[source] is what the source's fetcher returned (kind "raised":
\* it raised, and `except Exception: pass` keeps "No results")
DirectSearch(q, sources, fetched, optimized_query) ==
    [arxiv |-> IF "arxiv" \in sources /\ fetched.arxiv.kind = "str"
               THEN fetched.arxiv ELSE Str(NoResults),
     pubmed |-> IF "pubmed" \in sources /\ fetched.pubmed.kind = "str"
                THEN fetched.pubmed ELSE Str(NoResults),
     openalex |-> IF "openalex" \in sources /\ fetched.openalex.kind = "str"
                  THEN fetched.openalex ELSE Str(NoResults),
     original_query |-> Str(q),
     used_sources |->
         ListValue(SelectSeq(Sources, LAMBDA s :
             /\ s \in sources
             /\ fetched[s].kind = "str"
             /\ Yielded(fetched[s].text))),
     optimized_query |-> optimized_query]

\* multi_source_search under the agent strategy; agent_sources[source] is
\* agent_out.sources[source] (kind "raised": the key is missing)
AgentSearch(q, sources, agent_sources, agent_used, optimized_query) ==
    [arxiv |-> IF "arxiv" \in sources /\ agent_sources.arxiv.kind = "str"
               THEN agent_sources.arxiv ELSE Str(NoResults),
     pubmed |-> IF "pubmed" \in sources /\ agent_sources.pubmed.kind = "str"
                THEN agent_sources.pubmed ELSE Str(NoResults),
     openalex |-> IF "openalex" \in sources /\ agent_sources.openalex.kind = "str"
                  THEN agent_sources.openalex ELSE Str(NoResults),
     original_query |-> Str(q),
     used_sources |->
         ListValue(SelectSeq(agent_used, LAMBDA s : s \in sources)),
     optimized_query |-> optimized_query]

\* the test of prepare_results_for_synthesis for source_names.append(source)
Counted(results, source) ==
    /\ source \in DOMAIN results
    /\ results[source].kind = "str"
    /\ LET content == Strip(results[source].text)
       IN /\ content # <<>>
          /\ ~StartsWith(content, NoPapersFoundPrefix)
          /\ ~StartsWith(content, ErrorPrefix)

\* paper_count of one counted source
UrlPaperCount(content) ==
    LET by_line == Count(content, NL \o UrlMarker)
        by_url == IF by_line = 0 /\ Contains(content, UrlMarker)
                  THEN Count(content, UrlMarker) ELSE by_line
    IN IF by_url = 0 /\ Len(content) > SubstantialLength THEN 1 ELSE by_url

SourcePapers(results, source) ==
    IF Counted(results, source)
    THEN UrlPaperCount(Strip(results[source].text)) ELSE 0

\* original_query is never empty here and optimized_query is no dict, so
\* the fallback to the optimizer's keywords is not taken
prepare_results_for_synthesis(results) ==
    [raw_results |->
         [arxiv |-> Get(results, "arxiv", Str(NoResults)),
          pubmed |-> Get(results, "pubmed", Str(NoResults)),
          openalex |-> Get(results, "openalex", Str(NoResults))],
     summary |->
         [total |-> SourcePapers(results, "arxiv")
                    + SourcePapers(results, "pubmed")
                    + SourcePapers(results, "openalex"),
          sources |-> SelectSeq(Sources, LAMBDA s : Counted(results, s)),
          query |-> Get(results, "original_query", Str(<<>>)).text],
     optimized_query |-> Get(results, "optimized_query", NoneValue)]

\* `content and content != "No results" and not content.startswith("Error")`
WorthSynthesis(value) ==
    /\ value.text # <<>>
    /\ value.text # NoResults
    /\ ~StartsWith(value.text, ErrorPrefix)
\* source.upper()
UpperName(source) ==
    IF source = "arxiv" THEN <<"A", "R", "X", "I", "V">>
    ELSE IF source = "pubmed" THEN <<"P", "U", "B", "M", "E", "D">> ELSE <<"O", "P", "E", "N", "A", "L", "E", "X">>

\* combined_papers; MAX_COMBINED_CHARS (20000) is beyond the texts here
CombinedPapers(raw_results) ==
    Join(<<>> \o [k \in DOMAIN Sources |->
             IF WorthSynthesis(raw_results[Sources[k]])
             THEN <<"\n", "=", "=", "=", " ">> \o UpperName(Sources[k]) \o <<" ", "R", "e", "s", "u", "l", "t", "s", " ", "=", "=", "=", "\n">>
                  \o raw_results[Sources[k]].text \o NL
             ELSE <<>>], <<>>)
SynthesisPrompt(q, raw_results) ==
    <<"U", "s", "e", "r", " ", "Q", "u", "e", "r", "y", ":", " ">> \o q \o <<"\n", "\n", "P", "a", "p", "e", "r", " ", "D", "a", "t", "a", ":", "\n">> \o CombinedPapers(raw_results)

\* final_results after the optimization summary and the synthesis step
WithSynthesis(prepared, search_results, synthesis) ==
    [raw_results |-> prepared.raw_results,
     summary |-> prepared.summary,
     optimized_query |-> prepared.optimized_query,
     optimization |->
         [original_query |-> search_results.original_query.text,
          api_queries_built |-> search_results.optimized_query.kind # "none"],
     synthesis |-> synthesis]

(***************************************************************************)
(* Inputs of the orchestration                                             *)
(***************************************************************************)
NoAnswer == [kind |-> "raised", text |-> <<>>]
\* what a source can come back with: nothing, the fetchers' and the
\* filter's empty answers, an error text, one paper, two papers
SourceOutcomes ==
    { NoAnswer, Str(NoPapersFound), Str(NoRelevantPapersFound),
      Str(<<"E", "r", "r", "o", "r", " ", "f", "e", "t", "c", "h", "i", "n", "g", " ", "f", "r", "o", "m", " ", "a", "r", "X", "i", "v", ":", " ", "x">>), Str(ChunkPool[1]),
      Str(ChunkPool[1] \o NLNL \o ChunkPool[2]) }
SourcesArguments ==
    {[given |-> FALSE, list |-> {}]}
        \cup {[given |-> TRUE, list |-> S] : S \in SUBSET Range(Sources)}
\* the optimizer failed (None) or returned its OptimizedQuery
OptimizedQueries == { NoneValue, [kind |-> "object", text |-> <<"k">>] }
UsedSourcesLists == { <<>>, <<"arxiv">>, <<"openalex", "pubmed">>, Sources }
\* what the synthesis capability answers
SynthesisTexts == { <<"S">> }

InitOrchestrate ==
    /\ pc = "orchestrate"
    /\ StageIdle
    /\ DedupeIdle
    /\ RelIdle
    /\ SearchIdle
    /\ query \in Queries
    /\ max_total \in 1..MaxTotal
    /\ now_year = 2026
    /\ enabled_sources \in SourcesArguments
    /\ all_results = <<>>
    /\ scored = <<>>
    /\ top = <<>>
    /\ out = <<>>
    /\ final_results = <<>>
    /\ synthesis_calls = <<>>

notOrchestrateVars == <<dedupVars, relVars, searchVars, stageVars>>

\* search_results = await multi_source_search(...), strategy direct
SearchDirect ==
    /\ pc = "orchestrate"
    /\ \E fetched \in [Range(Sources) -> SourceOutcomes],
          optimized_query \in OptimizedQueries :
           all_results' = DirectSearch(query, ResolvedSources(enabled_sources),
                                       fetched, optimized_query)
    /\ pc' = "searched"
    /\ UNCHANGED <<query, max_total, now_year, scored, top, out,
                   enabled_sources, final_results, synthesis_calls,
                   notOrchestrateVars>>

\* search_results = await multi_source_search(...), strategy agent
SearchByAgent ==
    /\ pc = "orchestrate"
    /\ \E agent_sources \in [Range(Sources) -> SourceOutcomes],
          agent_used \in UsedSourcesLists,
          optimized_query \in OptimizedQueries :
           all_results' = AgentSearch(query, ResolvedSources(enabled_sources),
                                      agent_sources, agent_used, optimized_query)
    /\ pc' = "searched"
    /\ UNCHANGED <<query, max_total, now_year, scored, top, out,
                   enabled_sources, final_results, synthesis_calls,
                   notOrchestrateVars>>

\* trimmed_results = rank_and_trim_results(search_results, user_query, max_results)
TrimResults ==
    /\ pc = "searched"
    /\ scored' = [arxiv |-> ScoredOf(all_results, "arxiv", query, now_year),
                  pubmed |-> ScoredOf(all_results, "pubmed", query, now_year),
                  openalex |-> ScoredOf(all_results, "openalex", query, now_year)]
    /\ top' = [arxiv |-> EmittedIdx(scored'.arxiv, max_total),
               pubmed |-> EmittedIdx(scored'.pubmed, max_total),
               openalex |-> EmittedIdx(scored'.openalex, max_total)]
    /\ out' = RankedDict(all_results, scored', max_total)
    /\ pc' = "trimmed"
    /\ UNCHANGED <<all_results, query, max_total, now_year, enabled_sources,
                   final_results, synthesis_calls, notOrchestrateVars>>

\* final_results = prepare_results_for_synthesis(trimmed_results)
PrepareResults ==
    /\ pc = "trimmed"
    /\ final_results' = prepare_results_for_synthesis(out)
    /\ pc' = "prepared"
    /\ UNCHANGED <<all_results, query, max_total, now_year, scored, top, out,
                   enabled_sources, synthesis_calls, notOrchestrateVars>>

\* the synthesis step when some raw result passes the test
Synthesize ==
    /\ pc = "prepared"
    /\ \E s \in Range(Sources) : WorthSynthesis(final_results.raw_results[s])
    /\ synthesis_calls' =
           Append(synthesis_calls,
                  SynthesisPrompt(query, final_results.raw_results))
    /\ \E synthesis \in SynthesisTexts :
           final_results' = WithSynthesis(final_results, all_results, synthesis)
    /\ pc' = "returned"
    /\ UNCHANGED <<all_results, query, max_total, now_year, scored, top, out,
                   enabled_sources, notOrchestrateVars>>

\* the synthesis step when no raw result passes the test
SkipSynthesis ==
    /\ pc = "prepared"
    /\ \A s \in Range(Sources) : ~WorthSynthesis(final_results.raw_results[s])
    /\ final_results' =
           WithSynthesis(final_results, all_results, NoPapersToAnalyze)
    /\ pc' = "returned"
    /\ UNCHANGED <<all_results, query, max_total, now_year, scored, top, out,
                   enabled_sources, synthesis_calls, notOrchestrateVars>>

NextOrchestrate ==
    \/ SearchDirect
    \/ SearchByAgent
    \/ TrimResults
    \/ PrepareResults
    \/ Synthesize
    \/ SkipSynthesis
SpecOrchestrate == InitOrchestrate /\ [][NextOrchestrate]_vars

\* a source value without any paper
NoPaperValue(value) ==
    /\ value.kind = "str"
    /\ \/ value.text \in {NoResults, NoPapersFound, NoRelevantPapersFound}
       \/ StartsWith(value.text, ErrorPrefix)

\* C29: when every source value of the search is "No results", "No papers
\* found.", "No relevant papers found." or an error text, the synthesis is
\* not called, final_results["synthesis"] is "No papers found to analyze.",
\* summary.total is 0 and summary.sources is empty
C29_NoPapersNoSynthesis ==
    (/\ pc = "returned"
     /\ \A s \in Range(Sources) : NoPaperValue(all_results[s]))
        => /\ synthesis_calls = <<>>
           /\ final_results.synthesis = NoPapersToAnalyze
           /\ final_results.summary.total = 0
           /\ final_results.summary.sources = <<>>
====
